---- MODULE Spec2Model ----
(***************************************************************************)
(* Model of the ADXL345 Rust driver: the register protocol of Adxl345      *)
(* (structures/mod.rs), the open/read/release pipeline of Adxl345FileOps   *)
(* (fileops.rs) and the helpers of utility.rs.                             *)
(*                                                                         *)
(* Spec        the sampling pipeline: several callers issue open, read and *)
(*             release on the character device of a probed accelerometer.  *)
(* SpecFilter  adxl345_filter_out applied to samples of the whole i16      *)
(*             range, in builds with and without overflow checks.          *)
(* SpecDecode  Adxl345::read_data applied to block reads of any length and *)
(*             content.                                                    *)
(* SpecBinding the I2CDriverVtable callbacks and the I2CClient handles of  *)
(*             one bus device (rust/kernel/i2c).                           *)
(* SpecDrift   the stream of samples through the filter after an open.     *)
(* SpecLifecycle  probe and remove of Adxl345Driver (adxl345_core.rs) with *)
(*             one caller of the character device.                         *)
(* SpecConfigRegs  set_default_config, enable_measure and disable_measure  *)
(*             called on a device whose registers hold any content.        *)
(* SpecTeardown  I2CDriverBuilder::build, add_driver and any number of      *)
(*             remove_driver calls on the I2CDriver built.                 *)
(* SpecLive    the pipeline of Spec on a transport that never fails and a  *)
(*             device that is ready exactly while it measures, with fair   *)
(*             scheduling of the callers.                                  *)
(***************************************************************************)
EXTENDS Integers, Naturals, Sequences, FiniteSets, TLC

(***************************************************************************)
(* Bounds of the model.                                                    *)
(***************************************************************************)
\* largest number of whole records a caller's buffer has room for
MaxItems == 2
\* largest number of data_ready() polls of one readiness wait
MaxPolls == 2
\* largest number of times the handler method of one event kind is invoked
MaxCalls == 1
\* number of samples in a run through the filter
MaxRun == 3
\* number of register-protocol calls made in a row
MaxRegCalls == 2
\* largest number of remove_driver calls on one I2CDriver
MaxTeardowns == 3

(***************************************************************************)
(* Program constants.                                                      *)
(***************************************************************************)
ADXL345_FILTER == 50
ADXL345_REG_BW_RATE == 44
ADXL345_REG_POWER_CTL == 45
ADXL345_REG_INT_ENABLE == 46
ADXL345_REG_INT_MAP == 47
ADXL345_REG_INT_SOURCE == 48
ADXL345_REG_DATA_FORMAT == 49
ADXL345_REG_DATAX0 == 50
ADXL345_REG_FIFO_CTL == 56
\* core::mem::size_of::<Adxl345Sample>(): three i16 fields, repr(C)
SampleSize == 6
\* the length read_data asks read_i2c_block for
BlockLen == 6

Callers == {"a", "b"}
NoOne == "none"

ConfigRegs == {ADXL345_REG_BW_RATE, ADXL345_REG_POWER_CTL, ADXL345_REG_INT_ENABLE,
               ADXL345_REG_INT_MAP, ADXL345_REG_DATA_FORMAT, ADXL345_REG_FIFO_CTL}

(***************************************************************************)
(* 8- and 16-bit arithmetic.                                               *)
(***************************************************************************)
Pow2(k) == 2 ^ k
TestBit(v, k) == (v \div Pow2(k)) % 2 = 1
SetBit(v, k) == IF TestBit(v, k) THEN v ELSE v + Pow2(k)
ClearBit(v, k) == IF TestBit(v, k) THEN v - Pow2(k) ELSE v

I16Min == -32768
I16Max == 32767
InI16(n) == n >= I16Min /\ n <= I16Max
\* the 16-bit pattern u (0..65535) read as a two's complement i16
AsI16(u) == IF u >= 32768 THEN u - 65536 ELSE u
\* the two's complement pattern of the i16 v
AsU16(v) == IF v < 0 THEN v + 65536 ELSE v
\* an integer reduced to 16 bits and read as i16 (wrapping arithmetic)
WrapI16(n) == AsI16(n % 65536)

Adxl345Sample(x, y, z) == [x |-> x, y |-> y, z |-> z]
ZeroSample == Adxl345Sample(0, 0, 0)

(***************************************************************************)
(* Adxl345 register protocol: pure parts.                                  *)
(***************************************************************************)
\* from_le_bytes with the two bytes taken in big-endian order
from_be_bytes(lo, hi) == AsI16(hi + 256 * lo)

\* i16::from_le_bytes([lo, hi])
from_le_bytes(lo, hi) == AsI16(lo + 256 * hi)

\* v << 2 on an i16: the two top bits are shifted out, no overflow check
shl2_i16(v) == AsI16((AsU16(v) % 16384) * 4)

\* read_data accepting any block of at least six bytes
read_data_atleast(n, data) ==
    IF n < 0 THEN [kind |-> "EIO_BUS", sample |-> ZeroSample]
    ELSE IF n >= BlockLen
    THEN [kind |-> "Ok",
          sample |-> Adxl345Sample(shl2_i16(from_le_bytes(data[1], data[2])),
                                   shl2_i16(from_le_bytes(data[3], data[4])),
                                   shl2_i16(from_le_bytes(data[5], data[6])))]
    ELSE [kind |-> "EINVAL", sample |-> ZeroSample]

\* read_data: the match on the result of read_i2c_block(DATAX0, 6, data).
\* n < 0 is a transport error, otherwise n is the count returned.
read_data(n, data) ==
    IF n < 0 THEN [kind |-> "EIO_BUS", sample |-> ZeroSample]
    ELSE IF n = BlockLen
    THEN [kind |-> "Ok",
          sample |-> Adxl345Sample(shl2_i16(from_le_bytes(data[1], data[2])),
                                   shl2_i16(from_le_bytes(data[3], data[4])),
                                   shl2_i16(from_le_bytes(data[5], data[6])))]
    ELSE [kind |-> "EINVAL", sample |-> ZeroSample]

\* read: the match on the result of adxl.read_data() in the fill loop.
\* "Ok" hands the sample to the filter, anything else is what read returns.
read_fill_arm(rd) == IF rd.kind = "Ok" THEN "Ok" ELSE "EIO"

\* data_ready: the match on the result of read_register(INT_SOURCE).
\* v < 0 is a transport error, otherwise v is the byte read.
data_ready(v) ==
    IF v < 0 THEN "Err"
    ELSE IF TestBit(v, 7) THEN "1" ELSE "0"

\* enable_measure that writes the measurement bit alone
enable_measure_value_overwrite(v) == 8

\* the value enable_measure writes back to POWER_CTL
enable_measure_value(v) == SetBit(v, 3)

\* disable_measure that writes the value back as it was read
disable_measure_value_kept(v) == v

\* the value disable_measure writes back to POWER_CTL
disable_measure_value(v) == ClearBit(v, 3)

(***************************************************************************)
(* The noise filter.                                                       *)
(***************************************************************************)
\* a - b on i16: panics when the build checks overflow, wraps otherwise
sub_i16(a, b, checks) ==
    IF InI16(a - b) THEN [panic |-> FALSE, v |-> a - b]
    ELSE IF checks THEN [panic |-> TRUE, v |-> 0]
    ELSE [panic |-> FALSE, v |-> WrapI16(a - b)]

\* i16::abs: i16::MIN panics when the build checks overflow, else stays MIN
abs_i16(v, checks) ==
    IF v = I16Min
    THEN (IF checks THEN [panic |-> TRUE, v |-> 0] ELSE [panic |-> FALSE, v |-> I16Min])
    ELSE [panic |-> FALSE, v |-> IF v < 0 THEN 0 - v ELSE v]

\* (new - last).abs() for one axis
axis_diff(new, last, checks) ==
    LET s == sub_i16(new, last, checks)
    IN  IF s.panic THEN s ELSE abs_i16(s.v, checks)

\* adxl345_filter_out without the update of the last sample on the path
\* that filters the sample out
adxl345_filter_out_stale(new, last, checks) ==
    LET dx == axis_diff(new.x, last.x, checks)
        dy == axis_diff(new.y, last.y, checks)
        dz == axis_diff(new.z, last.z, checks)
    IN  IF dx.panic THEN [ret |-> "panic", last |-> last]
        ELSE IF dx.v > ADXL345_FILTER THEN [ret |-> "false", last |-> new]
        ELSE IF dy.panic THEN [ret |-> "panic", last |-> last]
        ELSE IF dy.v > ADXL345_FILTER THEN [ret |-> "false", last |-> new]
        ELSE IF dz.panic THEN [ret |-> "panic", last |-> last]
        ELSE IF dz.v > ADXL345_FILTER THEN [ret |-> "false", last |-> new]
        ELSE [ret |-> "true", last |-> last]

\* adxl345_filter_out(new_sample) with ADXL345_LAST_SAMPLE = last.
\* ret is the bool returned ("true": filter the sample out), or "panic";
\* last is the value of ADXL345_LAST_SAMPLE afterwards.
adxl345_filter_out(new, last, checks) ==
    LET dx == axis_diff(new.x, last.x, checks)
        dy == axis_diff(new.y, last.y, checks)
        dz == axis_diff(new.z, last.z, checks)
    IN  IF dx.panic THEN [ret |-> "panic", last |-> last]
        ELSE IF dx.v > ADXL345_FILTER THEN [ret |-> "false", last |-> new]
        ELSE IF dy.panic THEN [ret |-> "panic", last |-> last]
        ELSE IF dy.v > ADXL345_FILTER THEN [ret |-> "false", last |-> new]
        ELSE IF dz.panic THEN [ret |-> "panic", last |-> last]
        ELSE IF dz.v > ADXL345_FILTER THEN [ret |-> "false", last |-> new]
        ELSE [ret |-> "true", last |-> new]

(***************************************************************************)
(* Pipeline: pure parts of open and read.                                  *)
(***************************************************************************)
\* open_denied that forgets the read-write mode
open_denied_wronly(access) == access = "O_WRONLY"

\* open: access_mode == O_WRONLY || access_mode == O_RDWR
open_denied(access) == access = "O_WRONLY" \/ access = "O_RDWR"

\* read_items rounding up instead of down
read_items_ceil(capacity) == (capacity + SampleSize - 1) \div SampleSize

\* read: items = writer.len() / size_of::<Adxl345Sample>()
read_items(capacity) == capacity \div SampleSize

\* read_wait_arm that does not look at O_NONBLOCK: not ready always sleeps
read_wait_arm_noflag(r, nonblock) ==
    IF r = "1" THEN "break"
    ELSE IF r = "0" THEN "sleep"
    ELSE "EIO"

\* read_wait_arm that leaves the loop on any Ok(_) of a blocking file
read_wait_arm_nowait(r, nonblock) ==
    IF r = "1" THEN "break"
    ELSE IF r = "0" /\ nonblock THEN "EAGAIN"
    ELSE IF r = "0" THEN "break"
    ELSE "EIO"

\* read_wait_arm that polls again after a failed data_ready()
read_wait_arm_retry(r, nonblock) ==
    IF r = "1" THEN "break"
    ELSE IF r = "0" /\ nonblock THEN "EAGAIN"
    ELSE "sleep"

\* read: what the readiness wait does with the outcome r of data_ready()
\* for a file whose O_NONBLOCK flag is nonblock
read_wait_arm(r, nonblock) ==
    IF r = "1" THEN "break"
    ELSE IF r = "0" /\ nonblock THEN "EAGAIN"
    ELSE IF r = "0" THEN "sleep"
    ELSE "EIO"

\* read_recheck_arm that goes on whatever data_ready() reports
read_recheck_arm_eager(r) ==
    IF r = "0" THEN "continue"
    ELSE IF r = "1" THEN "continue"
    ELSE "EIO"

\* read: what the fill loop does with the outcome r of the data_ready()
\* re-check after a sample was written
read_recheck_arm(r) ==
    IF r = "0" THEN "break"
    ELSE IF r = "1" THEN "continue"
    ELSE "EIO"

(***************************************************************************)
(* State.                                                                  *)
(***************************************************************************)
VARIABLES
    reg,                   \* the device's configuration registers
    devLock,               \* holder of the SpinLock<Adxl345>
    DEVICE_PTR,            \* the global Option<Arc<SpinLock<Adxl345>>> is Some
    lastLocked,            \* the mutex of ADXL345_LAST_SAMPLE is locked
    ADXL345_LAST_SAMPLE,   \* the filter baseline
    caller,                \* per caller: the call in progress and its locals
    uIn,                   \* input of a function applied on its own
    uOut                   \* its result

vars == <<reg, devLock, DEVICE_PTR, lastLocked,
          ADXL345_LAST_SAMPLE, caller, uIn, uOut>>

NoResult == [kind |-> "none", n |-> 0]
NoFlags == [access |-> "O_RDONLY", nonblock |-> FALSE]

\* the locals of a caller with no call in progress and no open file
IdleCaller ==
    [pc |-> "idle", op |-> "none", flags |-> NoFlags, open |-> FALSE,
     capacity |-> 0, items |-> 0, iter |-> 0, count |-> 0, wr |-> 0,
     acc |-> ZeroSample, ret |-> 0, ready |-> "none", polls |-> 0,
     result |-> NoResult]

\* the locals at the entry of a new call
EnterCall(c, opname, first) ==
    [c EXCEPT !.pc = first, !.op = opname, !.capacity = 0, !.items = 0,
              !.iter = 0, !.count = 0, !.wr = 0, !.acc = ZeroSample,
              !.ret = 0, !.ready = "none", !.polls = 0,
              !.result = NoResult]

\* the call returns kind (with byte count n); its locals go out of scope.
\* What the call did stays on record: polls (turns of a readiness wait that
\* did not end in the fill loop), iter (fill loop iterations begun, one
\* read_data() each), ready (the last outcome of data_ready()) and wr (bytes
\* written to the caller's buffer).
Return(c, kind, n) ==
    [c EXCEPT !.pc = "idle", !.result = [kind |-> kind, n |-> n],
              !.items = 0, !.count = 0, !.acc = ZeroSample, !.ret = 0]

(***************************************************************************)
(* What the environment can supply.                                        *)
(***************************************************************************)
AccessModes == {"O_RDONLY", "O_WRONLY", "O_RDWR"}
\* buffer sizes in bytes: too small for a record, one record exactly, and
\* MaxItems records plus a remainder
Capacities == {SampleSize - 1, SampleSize, SampleSize * MaxItems + 1}
\* results of a byte read of INT_SOURCE; -1 is a transport failure
IntSourceReads == {-1, 0, 2, 128, 130}
\* counts returned by the block read; -1 is a transport failure
BlockCounts == {-1, 0, 5, 6}
\* blocks of a device in full resolution (13-bit, sign extended)
DeviceBlocks ==
    { <<0, 0, 0, 0, 0, 0>>,          \* (0, 0, 0)
      <<12, 0, 0, 0, 0, 0>>,         \* (48, 0, 0)
      <<24, 0, 0, 0, 0, 0>>,         \* (96, 0, 0)
      <<24, 0, 30, 0, 0, 0>>,        \* (96, 120, 0)
      <<24, 0, 30, 0, 240, 255>> }   \* (96, 120, -64)

(***************************************************************************)
(* Initial state of the pipeline: the device was probed (default           *)
(* configuration set, measurement disabled again, DEVICE_PTR set) and no   *)
(* file is open.  ADXL345_LAST_SAMPLE holds its static initialiser.        *)
(***************************************************************************)
ProbedRegs ==
    [r \in ConfigRegs |->
        IF r = ADXL345_REG_DATA_FORMAT THEN 11
        ELSE IF r = ADXL345_REG_BW_RATE THEN 10
        ELSE 0]

Init ==
    /\ reg = ProbedRegs
    /\ devLock = NoOne
    /\ DEVICE_PTR = TRUE
    /\ lastLocked = FALSE
    /\ ADXL345_LAST_SAMPLE = ZeroSample
    /\ caller = [p \in Callers |-> IdleCaller]
    /\ uIn = "none"
    /\ uOut = "none"

Me(p) == caller[p]
Upd(p, c) == caller' = [caller EXCEPT ![p] = c]
\* .expect("Driver not initialized") on an empty DEVICE_PTR, or an
\* arithmetic overflow in a checked build: the thread dies where it is
Panic(c) == [c EXCEPT !.pc = "panicked", !.result = [kind |-> "panic", n |-> 0]]

(***************************************************************************)
(* Adxl345FileOps::open with adxl345_device_init_at_open.                  *)
(***************************************************************************)
\* the access mode check and the lookup of DEVICE_PTR
OpenCall(p) ==
    /\ Me(p).pc = "idle"
    /\ ~Me(p).open
    /\ \E access \in AccessModes, nonblock \in BOOLEAN :
         LET c == [EnterCall(Me(p), "open", "o_lock") EXCEPT
                      !.flags = [access |-> access, nonblock |-> nonblock]]
         IN  IF open_denied(access) THEN Upd(p, Return(c, "EPERM", 0))
             ELSE IF ~DEVICE_PTR THEN Upd(p, Panic(c))
             ELSE Upd(p, c)
    /\ UNCHANGED <<reg, devLock, DEVICE_PTR, lastLocked,
                   ADXL345_LAST_SAMPLE, uIn, uOut>>

\* adxl345_device_init_at_open: device.lock()
OpenLock(p) ==
    /\ Me(p).pc = "o_lock"
    /\ devLock = NoOne
    /\ devLock' = p
    /\ Upd(p, [Me(p) EXCEPT !.pc = "o_en_read"])
    /\ UNCHANGED <<reg, DEVICE_PTR, lastLocked,
                   ADXL345_LAST_SAMPLE, uIn, uOut>>

\* enable_measure: read_register(POWER_CTL); on failure the lock is dropped,
\* no sleep is taken and open returns EIO
OpenEnableRead(p) ==
    /\ Me(p).pc = "o_en_read"
    /\ \E fail \in BOOLEAN :
         IF fail
         THEN /\ Upd(p, Return(Me(p), "EIO", 0))
              /\ devLock' = NoOne
         ELSE /\ Upd(p, [Me(p) EXCEPT !.pc = "o_en_write",
                                           !.ret = reg[ADXL345_REG_POWER_CTL]])
              /\ UNCHANGED devLock
    /\ UNCHANGED <<reg, DEVICE_PTR, lastLocked,
                   ADXL345_LAST_SAMPLE, uIn, uOut>>

\* OpenEnableWrite that goes on to the wake-up delay when the write failed
OpenEnableWrite_ignored(p) ==
    /\ Me(p).pc = "o_en_write"
    /\ \E fail \in BOOLEAN :
         IF fail
         THEN /\ Upd(p, [Me(p) EXCEPT !.pc = "o_sleep", !.ret = 0])
              /\ UNCHANGED reg
         ELSE /\ Upd(p, [Me(p) EXCEPT !.pc = "o_sleep", !.ret = 0])
              /\ reg' = [reg EXCEPT ![ADXL345_REG_POWER_CTL] =
                                       enable_measure_value(Me(p).ret)]
    /\ devLock' = NoOne
    /\ UNCHANGED <<DEVICE_PTR, lastLocked,
                   ADXL345_LAST_SAMPLE, uIn, uOut>>

\* enable_measure: ret |= 1 << 3; write_register(POWER_CTL, ret); drop(adxl)
OpenEnableWrite(p) ==
    /\ Me(p).pc = "o_en_write"
    /\ \E fail \in BOOLEAN :
         IF fail
         THEN /\ Upd(p, Return(Me(p), "EIO", 0))
              /\ UNCHANGED reg
         ELSE /\ Upd(p, [Me(p) EXCEPT !.pc = "o_sleep", !.ret = 0])
              /\ reg' = [reg EXCEPT ![ADXL345_REG_POWER_CTL] =
                                       enable_measure_value(Me(p).ret)]
    /\ devLock' = NoOne
    /\ UNCHANGED <<DEVICE_PTR, lastLocked,
                   ADXL345_LAST_SAMPLE, uIn, uOut>>

\* coarse_sleep(2 ms), the device wake-up time, taken without the lock
OpenSleep(p) ==
    /\ Me(p).pc = "o_sleep"
    /\ Upd(p, [Me(p) EXCEPT !.pc = "o_mutex_init"])
    /\ UNCHANGED <<reg, devLock, DEVICE_PTR, lastLocked,
                   ADXL345_LAST_SAMPLE, uIn, uOut>>

\* mutex_init!(ADXL345_LAST_SAMPLE): the mutex is set up anew, unlocked,
\* whoever holds it
OpenMutexInit(p) ==
    /\ Me(p).pc = "o_mutex_init"
    /\ lastLocked' = FALSE
    /\ Upd(p, [Me(p) EXCEPT !.pc = "o_last_lock"])
    /\ UNCHANGED <<reg, devLock, DEVICE_PTR,
                   ADXL345_LAST_SAMPLE, uIn, uOut>>

\* ADXL345_LAST_SAMPLE.lock()
OpenLastLock(p) ==
    /\ Me(p).pc = "o_last_lock"
    /\ ~lastLocked
    /\ lastLocked' = TRUE
    /\ Upd(p, [Me(p) EXCEPT !.pc = "o_reset"])
    /\ UNCHANGED <<reg, devLock, DEVICE_PTR,
                   ADXL345_LAST_SAMPLE, uIn, uOut>>

\* *filter_last = (0, 0, 0); set_nonseekable; Ok(()) and the guard is dropped
OpenReset(p) ==
    /\ Me(p).pc = "o_reset"
    /\ ADXL345_LAST_SAMPLE' = ZeroSample
    /\ lastLocked' = FALSE
    /\ Upd(p, [Return(Me(p), "Ok", 0) EXCEPT !.open = TRUE])
    /\ UNCHANGED <<reg, devLock, DEVICE_PTR, uIn, uOut>>

(***************************************************************************)
(* Adxl345FileOps::release with adxl345_device_clean_at_release.           *)
(***************************************************************************)
ReleaseCall(p) ==
    /\ Me(p).pc = "idle"
    /\ Me(p).open
    /\ LET c == [EnterCall(Me(p), "release", "c_lock") EXCEPT !.open = FALSE]
       IN  IF ~DEVICE_PTR THEN Upd(p, Panic(c)) ELSE Upd(p, c)
    /\ UNCHANGED <<reg, devLock, DEVICE_PTR, lastLocked,
                   ADXL345_LAST_SAMPLE, uIn, uOut>>

\* adxl345_device_clean_at_release that goes on without the device lock
ReleaseLock_unlocked(p) ==
    /\ Me(p).pc = "c_lock"
    /\ Upd(p, [Me(p) EXCEPT !.pc = "c_dis_read"])
    /\ UNCHANGED <<reg, devLock, DEVICE_PTR, lastLocked,
                   ADXL345_LAST_SAMPLE, uIn, uOut>>

\* adxl345_device_clean_at_release: device.lock()
ReleaseLock(p) ==
    /\ Me(p).pc = "c_lock"
    /\ devLock = NoOne
    /\ devLock' = p
    /\ Upd(p, [Me(p) EXCEPT !.pc = "c_dis_read"])
    /\ UNCHANGED <<reg, DEVICE_PTR, lastLocked,
                   ADXL345_LAST_SAMPLE, uIn, uOut>>

\* ReleaseDisableRead that hands the failure of the read to the caller
ReleaseDisableRead_reported(p) ==
    /\ Me(p).pc = "c_dis_read"
    /\ \E fail \in BOOLEAN :
         IF fail
         THEN /\ Upd(p, Return(Me(p), "EIO", 0))
              /\ devLock' = NoOne
         ELSE /\ Upd(p, [Me(p) EXCEPT !.pc = "c_dis_write",
                                           !.ret = reg[ADXL345_REG_POWER_CTL]])
              /\ UNCHANGED devLock
    /\ UNCHANGED <<reg, DEVICE_PTR, lastLocked,
                   ADXL345_LAST_SAMPLE, uIn, uOut>>

\* disable_measure: read_register(POWER_CTL); the error is ignored
ReleaseDisableRead(p) ==
    /\ Me(p).pc = "c_dis_read"
    /\ \E fail \in BOOLEAN :
         IF fail
         THEN /\ Upd(p, Return(Me(p), "Ok", 0))
              /\ devLock' = NoOne
         ELSE /\ Upd(p, [Me(p) EXCEPT !.pc = "c_dis_write",
                                           !.ret = reg[ADXL345_REG_POWER_CTL]])
              /\ UNCHANGED devLock
    /\ UNCHANGED <<reg, DEVICE_PTR, lastLocked,
                   ADXL345_LAST_SAMPLE, uIn, uOut>>

\* disable_measure: ret &= !(1 << 3); write_register(POWER_CTL, ret)
ReleaseDisableWrite(p) ==
    /\ Me(p).pc = "c_dis_write"
    /\ \E fail \in BOOLEAN :
         IF fail
         THEN UNCHANGED reg
         ELSE reg' = [reg EXCEPT ![ADXL345_REG_POWER_CTL] =
                                    disable_measure_value(Me(p).ret)]
    /\ Upd(p, Return(Me(p), "Ok", 0))
    /\ devLock' = NoOne
    /\ UNCHANGED <<DEVICE_PTR, lastLocked,
                   ADXL345_LAST_SAMPLE, uIn, uOut>>

(***************************************************************************)
(* Adxl345FileOps::read.                                                   *)
(***************************************************************************)
\* LoopTop with the range 0..=items: one iteration too many
LoopTop_inclusive(c) ==
    IF c.iter <= c.items THEN [c EXCEPT !.pc = "r_fill"]
    ELSE Return(c, "Ok", c.count)

\* the top of `for _ in 0..items`: the next iteration, or Ok(count) with
\* the device lock dropped when the range is used up
LoopTop(c) ==
    IF c.iter < c.items THEN [c EXCEPT !.pc = "r_fill"]
    ELSE Return(c, "Ok", c.count)

\* the lock is free after the step that leaves the caller in c
Unlocked(c) == IF c.pc = "idle" THEN NoOne ELSE devLock

\* the lookup of DEVICE_PTR
ReadCall(p) ==
    /\ Me(p).pc = "idle"
    /\ Me(p).open
    /\ \E capacity \in Capacities :
         LET c == [EnterCall(Me(p), "read", "r_lock") EXCEPT
                      !.capacity = capacity]
         IN  IF ~DEVICE_PTR THEN Upd(p, Panic(c)) ELSE Upd(p, c)
    /\ UNCHANGED <<reg, devLock, DEVICE_PTR, lastLocked,
                   ADXL345_LAST_SAMPLE, uIn, uOut>>

\* device.lock(); items = writer.len() / 6; items == 0 returns EINVAL
ReadLock(p) ==
    /\ Me(p).pc = "r_lock"
    /\ devLock = NoOne
    /\ LET n == read_items(Me(p).capacity)
       IN  IF n = 0
           THEN /\ Upd(p, Return(Me(p), "EINVAL", 0))
                /\ UNCHANGED devLock
           ELSE /\ Upd(p, [Me(p) EXCEPT !.pc = "r_wait", !.items = n])
                /\ devLock' = p
    /\ UNCHANGED <<reg, DEVICE_PTR, lastLocked,
                   ADXL345_LAST_SAMPLE, uIn, uOut>>

\* one turn of the readiness loop: match adxl.data_ready()
ReadWaitReady(p) ==
    /\ Me(p).pc = "r_wait"
    /\ \E v \in IntSourceReads :
         LET r == data_ready(v)
             arm == read_wait_arm(r, Me(p).flags.nonblock)
             c == [Me(p) EXCEPT !.ready = r, !.polls = @ + 1]
             d == IF arm = "break" THEN [c EXCEPT !.pc = "r_fill", !.polls = 0]
                  ELSE IF arm = "sleep" THEN [c EXCEPT !.pc = "r_sleep"]
                  ELSE Return(c, arm, 0)
         IN  /\ arm = "sleep" => c.polls < MaxPolls
             /\ Upd(p, d)
             /\ devLock' = Unlocked(d)
    /\ UNCHANGED <<reg, DEVICE_PTR, lastLocked,
                   ADXL345_LAST_SAMPLE, uIn, uOut>>

\* coarse_sleep(10 ms) of the readiness loop, taken with the lock held
ReadSleep(p) ==
    /\ Me(p).pc = "r_sleep"
    /\ Upd(p, [Me(p) EXCEPT !.pc = "r_wait"])
    /\ UNCHANGED <<reg, devLock, DEVICE_PTR, lastLocked,
                   ADXL345_LAST_SAMPLE, uIn, uOut>>

\* ReadData that rolls the writer back when read_data() fails
ReadData_rollback(p) ==
    /\ Me(p).pc = "r_fill"
    /\ \E n \in BlockCounts, data \in DeviceBlocks :
         LET rd == read_data(n, data)
             c == [Me(p) EXCEPT !.iter = @ + 1]
             d == IF rd.kind = "Ok"
                  THEN [c EXCEPT !.pc = "r_filter_lock", !.acc = rd.sample]
                  ELSE Return([c EXCEPT !.wr = 0], "EIO", 0)
         IN  /\ Upd(p, d)
             /\ devLock' = Unlocked(d)
    /\ UNCHANGED <<reg, DEVICE_PTR, lastLocked,
                   ADXL345_LAST_SAMPLE, uIn, uOut>>

\* one iteration of the fill loop begins: match adxl.read_data()
ReadData(p) ==
    /\ Me(p).pc = "r_fill"
    /\ \E n \in BlockCounts, data \in DeviceBlocks :
         LET rd == read_data(n, data)
             c == [Me(p) EXCEPT !.iter = @ + 1]
             d == IF read_fill_arm(rd) = "Ok"
                  THEN [c EXCEPT !.pc = "r_filter_lock", !.acc = rd.sample]
                  ELSE Return(c, read_fill_arm(rd), 0)
         IN  /\ Upd(p, d)
             /\ devLock' = Unlocked(d)
    /\ UNCHANGED <<reg, DEVICE_PTR, lastLocked,
                   ADXL345_LAST_SAMPLE, uIn, uOut>>

\* adxl345_filter_out: ADXL345_LAST_SAMPLE.lock()
ReadFilterLock(p) ==
    /\ Me(p).pc = "r_filter_lock"
    /\ ~lastLocked
    /\ lastLocked' = TRUE
    /\ Upd(p, [Me(p) EXCEPT !.pc = "r_filter"])
    /\ UNCHANGED <<reg, devLock, DEVICE_PTR,
                   ADXL345_LAST_SAMPLE, uIn, uOut>>

\* adxl345_filter_out: compare, update, unlock; true sends the loop to its
\* next iteration (`continue`), false goes on to the writes.  checks: the
\* build panics on integer overflow (overflow-checks), or wraps.
ReadFilter(p) ==
    /\ Me(p).pc = "r_filter"
    /\ \E checks \in BOOLEAN :
         LET f == adxl345_filter_out(Me(p).acc, ADXL345_LAST_SAMPLE, checks)
             d == IF f.ret = "panic" THEN Panic(Me(p))
                  ELSE IF f.ret = "true" THEN LoopTop(Me(p))
                  ELSE [Me(p) EXCEPT !.pc = "r_write"]
         IN  /\ Upd(p, d)
             /\ ADXL345_LAST_SAMPLE' = f.last
             /\ lastLocked' = (f.ret = "panic" /\ lastLocked)
             /\ devLock' = Unlocked(d)
    /\ UNCHANGED <<reg, DEVICE_PTR, uIn, uOut>>

\* writer.write of x, y and z (2 bytes each), count += 6.  fault = k > 0:
\* the k-th write fails (bad user memory) and read returns that error.
ReadWrite(p) ==
    /\ Me(p).pc = "r_write"
    /\ \E fault \in 0..3 :
         LET d == IF fault = 0
                  THEN [Me(p) EXCEPT !.pc = "r_recheck", !.wr = @ + SampleSize,
                                    !.count = @ + SampleSize]
                  ELSE Return([Me(p) EXCEPT !.wr = @ + 2 * (fault - 1)], "EFAULT", 0)
         IN  /\ Upd(p, d)
             /\ devLock' = Unlocked(d)
    /\ UNCHANGED <<reg, DEVICE_PTR, lastLocked,
                   ADXL345_LAST_SAMPLE, uIn, uOut>>

\* the re-check after a written sample: match adxl.data_ready()
ReadRecheck(p) ==
    /\ Me(p).pc = "r_recheck"
    /\ \E v \in IntSourceReads :
         LET r == data_ready(v)
             arm == read_recheck_arm(r)
             c == [Me(p) EXCEPT !.ready = r]
             d == IF arm = "break" THEN Return(c, "Ok", c.count)
                  ELSE IF arm = "continue" THEN LoopTop(c)
                  ELSE Return(c, "EIO", 0)
         IN  /\ Upd(p, d)
             /\ devLock' = Unlocked(d)
    /\ UNCHANGED <<reg, DEVICE_PTR, lastLocked,
                   ADXL345_LAST_SAMPLE, uIn, uOut>>

Next ==
    \E p \in Callers :
        \/ OpenCall(p)
        \/ OpenLock(p)
        \/ OpenEnableRead(p)
        \/ OpenEnableWrite(p)
        \/ OpenSleep(p)
        \/ OpenMutexInit(p)
        \/ OpenLastLock(p)
        \/ OpenReset(p)
        \/ ReleaseCall(p)
        \/ ReleaseLock(p)
        \/ ReleaseDisableRead(p)
        \/ ReleaseDisableWrite(p)
        \/ ReadCall(p)
        \/ ReadLock(p)
        \/ ReadWaitReady(p)
        \/ ReadSleep(p)
        \/ ReadData(p)
        \/ ReadFilterLock(p)
        \/ ReadFilter(p)
        \/ ReadWrite(p)
        \/ ReadRecheck(p)

Spec == Init /\ [][Next]_vars

(***************************************************************************)
(* adxl345_filter_out on its own, over the i16 range.                      *)
(***************************************************************************)
FilterAxisX == {-32768, -52, 0, 48, 32764}
FilterAxisY == {-32768, 0, 32764}
FilterAxisZ == {-32768, 0, 100}
FilterSamples ==
    {Adxl345Sample(x, y, z) : x \in FilterAxisX, y \in FilterAxisY, z \in FilterAxisZ}

InitFilter ==
    /\ reg = ProbedRegs
    /\ devLock = NoOne
    /\ DEVICE_PTR = TRUE
    /\ lastLocked = FALSE
    /\ caller = [p \in Callers |-> IdleCaller]
    /\ uIn \in [new : FilterSamples, last : FilterSamples, checks : BOOLEAN]
    /\ ADXL345_LAST_SAMPLE = uIn.last
    /\ uOut = [ret |-> "none", last |-> uIn.last]

ApplyFilter ==
    /\ uOut.ret = "none"
    /\ uOut' = adxl345_filter_out(uIn.new, ADXL345_LAST_SAMPLE, uIn.checks)
    /\ ADXL345_LAST_SAMPLE' = uOut'.last
    /\ UNCHANGED <<reg, devLock, DEVICE_PTR, lastLocked, caller, uIn>>

NextFilter == ApplyFilter

SpecFilter == InitFilter /\ [][NextFilter]_vars

(***************************************************************************)
(* Adxl345::read_data on its own, over block reads of any count.           *)
(***************************************************************************)
DecodeCounts == {-1, 0, 5, 6, 7}
DecodeBlocks ==
    {<<xl, xh, yl, yh, zl, zh>> :
        xl \in {0, 4, 8, 12, 255}, xh \in {0, 31, 32, 128, 255},
        yl \in {0, 8, 255}, yh \in {0, 127, 128},
        zl \in {1, 12}, zh \in {0, 64}}

InitDecode ==
    /\ reg = ProbedRegs
    /\ devLock = NoOne
    /\ DEVICE_PTR = TRUE
    /\ lastLocked = FALSE
    /\ ADXL345_LAST_SAMPLE = ZeroSample
    /\ caller = [p \in Callers |-> IdleCaller]
    /\ uIn \in [n : DecodeCounts, data : DecodeBlocks]
    /\ uOut = [kind |-> "none", sample |-> ZeroSample, read |-> "none"]

ApplyDecode ==
    /\ uOut.kind = "none"
    /\ LET rd == read_data(uIn.n, uIn.data)
       IN  uOut' = [kind |-> rd.kind, sample |-> rd.sample,
                    read |-> read_fill_arm(rd)]
    /\ UNCHANGED <<reg, devLock, DEVICE_PTR, lastLocked, ADXL345_LAST_SAMPLE,
                   caller, uIn>>

NextDecode == ApplyDecode

SpecDecode == InitDecode /\ [][NextDecode]_vars

(***************************************************************************)
(* Properties of the pipeline.                                             *)
(***************************************************************************)
\* caller p has returned from a call of opname
Returned(p, opname) == Me(p).pc = "idle" /\ Me(p).op = opname
\* caller p takes a step
Stepped(p) == caller'[p] # caller[p]

\* C1: every successful read returns a byte count that is a whole multiple
\* of the record size (6) and at most (capacity / 6) * 6.
C1_ReadReturnsWholeRecords ==
    \A p \in Callers :
        (Returned(p, "read") /\ Me(p).result.kind = "Ok")
            => /\ Me(p).result.n % SampleSize = 0
               /\ Me(p).result.n <= (Me(p).capacity \div SampleSize) * SampleSize

\* a read with room for two records and a remainder returned two records
C1_Witness ==
    \E p \in Callers :
        /\ Returned(p, "read") /\ Me(p).result.kind = "Ok"
        /\ Me(p).capacity = SampleSize * MaxItems + 1
        /\ Me(p).result.n = SampleSize * MaxItems

\* C2: a read that returns successfully never returns zero bytes.
C2_ReadNeverReturnsZero ==
    \A p \in Callers :
        (Returned(p, "read") /\ Me(p).result.kind = "Ok") => Me(p).result.n > 0

C4_NonBlockingReadNeverWaits ==
    \A p, q \in Callers :
        (Me(p).op = "read" /\ Me(p).flags.nonblock /\ Me(p).pc = "r_lock")
            => ~(devLock = q /\ Me(q).pc = "r_sleep")

\* C5: a blocking read that sees data_ready() = 0 sleeps and polls again; as
\* long as it waits it has read no sample block, written nothing and not
\* returned; when data_ready() gives 1 it enters the fill loop.
C5_BlockingReadWaitsForReadiness ==
    [][\A p \in Callers :
        /\ (Me(p).pc = "r_wait" /\ ~Me(p).flags.nonblock /\ Stepped(p)
              /\ caller'[p].ready = "0")
              => /\ caller'[p].pc = "r_sleep"
                 /\ caller'[p].result = NoResult
                 /\ devLock' = p
        /\ (Me(p).pc = "r_sleep" /\ Stepped(p)) => caller'[p].pc = "r_wait"
        /\ (Me(p).pc = "r_wait" /\ Stepped(p) /\ caller'[p].ready = "1")
              => caller'[p].pc = "r_fill"
        /\ Me(p).pc \in {"r_wait", "r_sleep"}
              => /\ Me(p).iter = 0
                 /\ Me(p).wr = 0
                 /\ Me(p).result = NoResult]_vars

\* a blocking read sleeps after data_ready() gave 0
C5_Witness ==
    \E p \in Callers :
        /\ Me(p).pc = "r_sleep" /\ ~Me(p).flags.nonblock
        /\ Me(p).ready = "0" /\ Me(p).polls = 1

\* C6: read with capacity < 6 returns EINVAL with no data_ready(), no
\* read_data(), nothing written and the last sample unchanged.
C6_SmallBufferInvalid ==
    [][\A p \in Callers :
        (Me(p).pc = "r_lock" /\ Me(p).capacity < SampleSize /\ Stepped(p))
            => /\ caller'[p].pc = "idle"
               /\ caller'[p].result = [kind |-> "EINVAL", n |-> 0]
               /\ caller'[p].polls = 0
               /\ caller'[p].ready = "none"
               /\ caller'[p].iter = 0
               /\ caller'[p].wr = 0
               /\ UNCHANGED <<reg, devLock, lastLocked, ADXL345_LAST_SAMPLE>>]_vars

\* a blocking and a non-blocking read of a 5-byte buffer returned EINVAL
C6_Witness ==
    \E p, q \in Callers :
        /\ Returned(p, "read") /\ Me(p).result.kind = "EINVAL"
        /\ Returned(q, "read") /\ Me(q).result.kind = "EINVAL"
        /\ Me(p).capacity < SampleSize /\ Me(q).capacity < SampleSize
        /\ Me(p).flags.nonblock /\ ~Me(q).flags.nonblock

AbsInt(n) == IF n < 0 THEN 0 - n ELSE n
\* sample s is within the threshold of b on all three axes
WithinFilter(s, b) ==
    /\ AbsInt(s.x - b.x) <= ADXL345_FILTER
    /\ AbsInt(s.y - b.y) <= ADXL345_FILTER
    /\ AbsInt(s.z - b.z) <= ADXL345_FILTER

\* C7: a sample within 50 of the last sample on all three axes is not
\* delivered (nothing written, byte count not advanced) and the last sample
\* is overwritten with it.
C7_FilterRejectsAndUpdates ==
    [][\A p \in Callers :
        (/\ Me(p).pc = "r_filter"
         /\ Stepped(p)
         /\ WithinFilter(Me(p).acc, ADXL345_LAST_SAMPLE))
            => /\ ADXL345_LAST_SAMPLE' = Me(p).acc
               /\ caller'[p].wr = Me(p).wr
               /\ caller'[p].pc \in {"r_fill", "idle"}
               /\ caller'[p].pc = "r_fill" => caller'[p].count = Me(p).count
               /\ caller'[p].pc = "idle"
                     => caller'[p].result = [kind |-> "Ok", n |-> Me(p).count]]_vars

\* a read took one sample, (48, 0, 0) against the zero sample, delivered
\* nothing and left the sample as the last one
C7_Witness ==
    \E p \in Callers :
        /\ Returned(p, "read") /\ Me(p).result = [kind |-> "Ok", n |-> 0]
        /\ Me(p).iter = 1 /\ Me(p).wr = 0
        /\ ADXL345_LAST_SAMPLE = Adxl345Sample(48, 0, 0)

(***************************************************************************)
(* Properties of adxl345_filter_out and read_data.                         *)
(***************************************************************************)
\* sample s differs from b by more than the threshold on some axis
ExceedsFilter(s, b) == ~WithinFilter(s, b)

\* C8: for every sample and last sample with i16 fields, a difference of
\* more than 50 on any axis means the sample is delivered (the filter
\* returns false).
C8_FilterAcceptsOverI16Range ==
    (uOut.ret # "none" /\ ExceedsFilter(uIn.new, uIn.last)) => uOut.ret = "false"

\* the 16-bit value lo + 256 * hi as signed, times 4, kept in 16 bits
DecodedAxis(lo, hi) ==
    LET raw == lo + 256 * hi
        signed == IF raw >= 32768 THEN raw - 65536 ELSE raw
        m == (signed * 4) % 65536
    IN  IF m >= 32768 THEN m - 65536 ELSE m

\* C9: read_data decodes a 6-byte block as three little-endian signed 16-bit
\* values X, Y, Z, each times 4 kept in 16 bits; [4,0,8,0,12,0] gives
\* (16, 32, 48).
C9_ReadDataDecodes ==
    (uOut.kind # "none" /\ uIn.n = BlockLen)
        => /\ uOut.kind = "Ok"
           /\ uOut.sample.x = DecodedAxis(uIn.data[1], uIn.data[2])
           /\ uOut.sample.y = DecodedAxis(uIn.data[3], uIn.data[4])
           /\ uOut.sample.z = DecodedAxis(uIn.data[5], uIn.data[6])
           /\ uIn.data = <<4, 0, 8, 0, 12, 0>>
                 => uOut.sample = Adxl345Sample(16, 32, 48)

\* the block [4,0,8,0,12,0] was decoded
C9_Witness ==
    /\ uOut.kind = "Ok"
    /\ uIn.data = <<4, 0, 8, 0, 12, 0>>
    /\ uOut.sample = Adxl345Sample(16, 32, 48)

\* C10: open in write-only or read-write mode fails with EPERM and has no
\* effect: no register access, no device lock taken, no wake-up delay, the
\* last sample and its mutex untouched, no file opened.
C10_WriteOpenDenied ==
    [][\A p \in Callers :
        (/\ Me(p).pc = "idle"
         /\ Stepped(p)
         /\ caller'[p].op = "open"
         /\ caller'[p].flags.access \in {"O_WRONLY", "O_RDWR"})
            => /\ caller'[p].pc = "idle"
               /\ caller'[p].result = [kind |-> "EPERM", n |-> 0]
               /\ ~caller'[p].open
               /\ UNCHANGED <<reg, devLock, lastLocked, ADXL345_LAST_SAMPLE>>]_vars

\* a read-write open was denied while the last sample was not the zero
\* sample and measurement was disabled
C10_Witness ==
    \E p \in Callers :
        /\ Returned(p, "open") /\ Me(p).result.kind = "EPERM"
        /\ Me(p).flags.access = "O_RDWR"
        /\ ADXL345_LAST_SAMPLE # ZeroSample
        /\ ~TestBit(reg[ADXL345_REG_POWER_CTL], 3)

\* C11: when read_data() fails in the fill loop after at least one record
\* was written, the read returns EIO at that step: the bytes already written
\* to the caller's buffer stay there, the call is over (it issues no further
\* device transaction and no register is touched) and the device lock is free.
\* (A fill step that does not go on to the filter is a failed read_data().)
C11_TransportFailureKeepsWritten ==
    [][\A p \in Callers :
        (/\ Me(p).pc = "r_fill"
         /\ Me(p).wr >= SampleSize
         /\ Stepped(p)
         /\ caller'[p].pc # "r_filter_lock")
            => /\ caller'[p].pc = "idle"
               /\ caller'[p].result = [kind |-> "EIO", n |-> 0]
               /\ caller'[p].wr = Me(p).wr
               /\ caller'[p].iter = Me(p).iter + 1
               /\ devLock' = NoOne
               /\ UNCHANGED <<reg, ADXL345_LAST_SAMPLE>>]_vars

\* a read wrote one record, saw data_ready() = 1 again, and its second
\* read_data() failed: EIO with 6 bytes left in the buffer
C11_Witness ==
    \E p \in Callers :
        /\ Returned(p, "read") /\ Me(p).result.kind = "EIO"
        /\ Me(p).wr = SampleSize /\ Me(p).iter = 2 /\ Me(p).ready = "1"

\* caller p is between the first step of an operation after taking the
\* device lock and the operation's return
InOperation(p) ==
    Me(p).pc \notin {"idle", "panicked", "o_lock", "r_lock", "c_lock"}

\* C12: the device lock is held for the whole of each open, read and
\* release, sleeps included, so the operations serialize: while one caller is
\* inside an operation it holds the device lock and no other caller is inside
\* one (no device transaction, wake-up delay or baseline reset of another
\* operation falls between its steps).
C12_OperationsSerialize ==
    \A p \in Callers :
        InOperation(p)
            => /\ devLock = p
               /\ \A q \in Callers \ {p} : ~InOperation(q)

(***************************************************************************)
(* The driver binding: I2CDriverVtable dispatches the bus events of one     *)
(* i2c_client to the handler stored in its clientdata, and I2CClient        *)
(* handles own (new_client_device) or only view (from_raw_ptr) the device.  *)
(* uOut is the bus device with its handles, uIn the callback in progress.   *)
(***************************************************************************)
Events == {"probe", "remove", "shutdown", "alert", "command", "detect"}
\* the callbacks that return a c_int to the bus
ReturningEvents == {"probe", "command", "detect"}
\* what a handler method can return
HandlerResults == {"Ok", "EIO", "EINVAL"}
\* the methods of I2CDriverCallbacks that have a default body: both log a
\* line, command and detect return Ok(())
DefaultMethods == {"shutdown", "alert", "command", "detect"}
\* the method invoked is the trait's default or the handler's own
MethodBodies == {"default", "own"}

NoHandle == [live |-> FALSE, owned |-> FALSE]
\* I2CClient::new_client_device: Self { ptr, owned: true }
new_client_device == [live |-> TRUE, owned |-> TRUE]
\* I2CClient::from_raw_ptr: Self { ptr, owned: false }
from_raw_ptr == [live |-> TRUE, owned |-> FALSE]

NoRet == [neg |-> FALSE, code |-> "none"]
RetZero == [neg |-> FALSE, code |-> "0"]

\* to_kernel_errno that gives the errno as a positive number
to_kernel_errno_positive(e) == [neg |-> FALSE, code |-> e]

\* Error::to_kernel_errno: the negative errno of the error
to_kernel_errno(e) == [neg |-> TRUE, code |-> e]

\* get_driver_instance without the null check
get_driver_instance_unchecked(clientdata) == "Ok"

\* get_driver_instance: Err(EINVAL) on a null clientdata, else the instance
get_driver_instance(clientdata) ==
    IF clientdata = "null" THEN "EINVAL" ELSE "Ok"

\* Drop for I2CClient that unregisters whatever the owned flag says
drop_client_always(h, bus, who) ==
    [bus EXCEPT !.device = "unregistered", !.unregs = @ + 1, !.unregBy = who]

\* Drop for I2CClient: i2c_unregister_device only if self.owned
drop_client(h, bus, who) ==
    IF h.owned
    THEN [bus EXCEPT !.device = "unregistered", !.unregs = @ + 1, !.unregBy = who]
    ELSE bus

NoCallback == [pc |-> "idle", event |-> "none", view |-> NoHandle,
               ret |-> NoRet, logged |-> "none", res |-> "none",
               method |-> "none"]

InitBinding ==
    /\ reg = ProbedRegs
    /\ devLock = NoOne
    /\ DEVICE_PTR = FALSE
    /\ lastLocked = FALSE
    /\ ADXL345_LAST_SAMPLE = ZeroSample
    /\ caller = [p \in Callers |-> IdleCaller]
    /\ uIn = NoCallback
    /\ uOut = [device |-> "none", client |-> NoHandle, clientdata |-> "null",
               driver |-> "none", unregs |-> 0, unregBy |-> "none",
               invoked |-> [e \in Events |-> 0]]

BindingFrame ==
    UNCHANGED <<reg, devLock, DEVICE_PTR, lastLocked, ADXL345_LAST_SAMPLE, caller>>

\* Adxl345Module::init: I2CClient::new_client_device(...).expect(...); a
\* failure ends the module's initialisation
NewClientDevice ==
    /\ uOut.device = "none"
    /\ \E fail \in BOOLEAN :
         uOut' = IF fail THEN [uOut EXCEPT !.device = "failed"]
                 ELSE [uOut EXCEPT !.device = "registered",
                                   !.client = new_client_device]
    /\ UNCHANGED uIn
    /\ BindingFrame

\* set_clientdata called again on a device whose driver is already added
SetClientdata_again ==
    /\ uOut.client.live
    /\ uOut.clientdata = "null"
    /\ uOut' = [uOut EXCEPT !.clientdata = "driver"]
    /\ UNCHANGED uIn
    /\ BindingFrame

\* Adxl345Module::init: i2c_client.set_clientdata(adxl345driver), before the
\* driver is added
SetClientdata ==
    /\ uOut.client.live
    /\ uOut.driver = "none"
    /\ uOut.clientdata = "null"
    /\ uOut' = [uOut EXCEPT !.clientdata = "driver"]
    /\ UNCHANGED uIn
    /\ BindingFrame

\* I2CDriverBuilder::build and I2CDriver::add_driver; the builder does not
\* ask for a clientdata to be set
AddDriver ==
    /\ uOut.client.live
    /\ uOut.driver = "none"
    /\ uOut' = [uOut EXCEPT !.driver = "added"]
    /\ UNCHANGED uIn
    /\ BindingFrame

\* the body shared by the extern "C" callbacks: the view of the client is
\* made, get_driver_instance looks the handler up; with no handler the
\* callback logs, returns (the error, if it returns a value) and its view is
\* dropped; else the handler method is called
Dispatch(e) ==
    /\ uOut.device = "registered"
    /\ uOut.driver = "added"
    /\ LET view == from_raw_ptr
       IN  IF get_driver_instance(uOut.clientdata) = "Ok"
           THEN /\ uOut.invoked[e] < MaxCalls
                /\ uIn' = [pc |-> "handler", event |-> e, view |-> view,
                           ret |-> NoRet, logged |-> "none",
                           res |-> "none", method |-> "none"]
                /\ uOut' = [uOut EXCEPT !.invoked[e] = @ + 1]
           ELSE /\ uIn' = [pc |-> "idle", event |-> e, view |-> NoHandle,
                           ret |-> IF e \in ReturningEvents
                                   THEN to_kernel_errno(get_driver_instance(uOut.clientdata))
                                   ELSE NoRet,
                           logged |-> e, res |-> "none", method |-> "none"]
                /\ uOut' = drop_client(view, uOut, "view")
    /\ BindingFrame

\* the bus delivers one event at a time to the device
probe_callback ==
    /\ uIn.pc = "idle"
    /\ Dispatch("probe")

remove_callback ==
    /\ uIn.pc = "idle"
    /\ Dispatch("remove")

shutdown_callback ==
    /\ uIn.pc = "idle"
    /\ Dispatch("shutdown")

alert_callback ==
    /\ uIn.pc = "idle"
    /\ Dispatch("alert")

command_callback ==
    /\ uIn.pc = "idle"
    /\ Dispatch("command")

detect_callback ==
    /\ uIn.pc = "idle"
    /\ Dispatch("detect")

\* HandlerReturn whose remove leaves the clientdata in place
HandlerReturn_kept ==
    /\ uIn.pc = "handler"
    /\ \E res \in HandlerResults, method \in MethodBodies :
         LET e == uIn.event
         IN  /\ e \notin ReturningEvents => res = "Ok"
             /\ method = "default" => (e \in DefaultMethods /\ res = "Ok")
             /\ uIn' = [pc |-> "idle", event |-> e, view |-> NoHandle,
                        ret |-> IF e \notin ReturningEvents THEN NoRet
                                ELSE IF res = "Ok" THEN RetZero
                                ELSE to_kernel_errno(res),
                        logged |-> "none", res |-> res, method |-> method]
             /\ uOut' = drop_client(uIn.view, uOut, "view")
    /\ BindingFrame

\* the handler method returns: probe, command and detect give 0 or the
\* negative errno of the handler's error, remove clears the clientdata
\* (free_clientdata); the callback's view of the client is dropped.  The
\* method is the handler's own or, where the trait has one, the default
\* body, which returns Ok(()).
HandlerReturn ==
    /\ uIn.pc = "handler"
    /\ \E res \in HandlerResults, method \in MethodBodies :
         LET e == uIn.event
             bus == IF e = "remove" THEN [uOut EXCEPT !.clientdata = "null"]
                    ELSE uOut
         IN  /\ e \notin ReturningEvents => res = "Ok"
             /\ method = "default" => (e \in DefaultMethods /\ res = "Ok")
             /\ uIn' = [pc |-> "idle", event |-> e, view |-> NoHandle,
                        ret |-> IF e \notin ReturningEvents THEN NoRet
                                ELSE IF res = "Ok" THEN RetZero
                                ELSE to_kernel_errno(res),
                        logged |-> "none", res |-> res, method |-> method]
             /\ uOut' = drop_client(uIn.view, bus, "view")
    /\ BindingFrame

\* Drop for Adxl345Module: remove_driver()
RemoveDriver ==
    /\ uIn.pc = "idle"
    /\ uOut.driver = "added"
    /\ uOut' = [uOut EXCEPT !.driver = "removed"]
    /\ UNCHANGED uIn
    /\ BindingFrame

\* the module's fields are dropped after remove_driver(): the Adxl345 with
\* the owning I2CClient goes
DropClient ==
    /\ uOut.client.live
    /\ uOut.driver = "removed"
    /\ uOut' = drop_client(uOut.client, [uOut EXCEPT !.client.live = FALSE], "owner")
    /\ UNCHANGED uIn
    /\ BindingFrame

NextBinding ==
    \/ NewClientDevice
    \/ SetClientdata
    \/ AddDriver
    \/ probe_callback
    \/ remove_callback
    \/ shutdown_callback
    \/ alert_callback
    \/ command_callback
    \/ detect_callback
    \/ HandlerReturn
    \/ RemoveDriver
    \/ DropClient

SpecBinding == InitBinding /\ [][NextBinding]_vars

\* C13: a bus event of any kind that finds a null clientdata invokes no
\* handler method; probe, command and detect return the negative errno of
\* EINVAL, remove, shutdown and alert return nothing and only log; the
\* clientdata, the handles and the device are left as they were.
C13_NullContextNotDispatched ==
    [][(uIn.pc = "idle" /\ uIn' # uIn /\ uOut.clientdata = "null")
        => /\ uIn'.pc = "idle"
           /\ uIn'.logged = uIn'.event
           /\ uOut'.invoked = uOut.invoked
           /\ uIn'.event \in ReturningEvents
                => uIn'.ret = [neg |-> TRUE, code |-> "EINVAL"]
           /\ uIn'.event \notin ReturningEvents => uIn'.ret = NoRet
           /\ uOut' = uOut]_vars

\* after remove had cleared the clientdata, probe arrived again, found no
\* handler and returned -EINVAL
C13_Witness ==
    /\ uIn.event = "probe" /\ uIn.logged = "probe"
    /\ uIn.ret = [neg |-> TRUE, code |-> "EINVAL"]
    /\ uOut.invoked["remove"] = 1
    /\ uOut.invoked["probe"] = 0

\* C14: the bus device is unregistered at most once, and only by the drop of
\* the owning handle made by new_client_device; the views made by
\* from_raw_ptr in the callbacks are not owning and their drop unregisters
\* nothing; a handle's owned flag stays what it was made with.
C14_UnregisteredOnlyByOwner ==
    /\ uOut.unregs <= 1
    /\ uOut.unregBy \in {"none", "owner"}
    /\ uOut.unregs = 1 <=> (uOut.client.owned /\ ~uOut.client.live)
    /\ uOut.unregs = 1 <=> uOut.device = "unregistered"
    /\ uOut.client.live => uOut.client.owned
    /\ uIn.view.live => ~uIn.view.owned

\* probe and remove were handled through views, then the owning handle was
\* dropped and unregistered the device
C14_Witness ==
    /\ uOut.unregs = 1 /\ uOut.unregBy = "owner"
    /\ uOut.invoked["probe"] = 1 /\ uOut.invoked["remove"] = 1

(***************************************************************************)
(* The stream of samples through adxl345_filter_out after an open: each    *)
(* sample read goes through the filter once, in the order read (read holds *)
(* the device lock).  uOut records the candidate, the filter's answer and   *)
(* the sample delivered last.                                              *)
(***************************************************************************)
DriftAxisX == {0, 48, 96, 144}
DriftAxisY == {0, 40, 120}
DriftSamples == {Adxl345Sample(x, y, 0) : x \in DriftAxisX, y \in DriftAxisY}

InitDrift ==
    /\ reg = ProbedRegs
    /\ devLock = NoOne
    /\ DEVICE_PTR = TRUE
    /\ lastLocked = FALSE
    /\ ADXL345_LAST_SAMPLE = ZeroSample
    /\ caller = [p \in Callers |-> IdleCaller]
    /\ uIn = "none"
    /\ uOut = [n |-> 0, new |-> ZeroSample, ret |-> "none",
               sent |-> FALSE, delivered |-> ZeroSample]

\* FilterRun that compares the candidate with the sample delivered last
FilterRun_delivered ==
    /\ uOut.n < MaxRun
    /\ \E new \in DriftSamples, checks \in BOOLEAN :
         LET f == adxl345_filter_out(new, uOut.delivered, checks)
         IN  /\ f.ret # "panic"
             /\ ADXL345_LAST_SAMPLE' = f.last
             /\ uOut' = [n |-> uOut.n + 1, new |-> new, ret |-> f.ret,
                         sent |-> (uOut.sent \/ f.ret = "false"),
                         delivered |-> IF f.ret = "false" THEN new
                                       ELSE uOut.delivered]
    /\ UNCHANGED <<reg, devLock, DEVICE_PTR, lastLocked, caller, uIn>>

\* read: acc = read_data(); if adxl345_filter_out(&acc) { continue; } else
\* the sample is written to the caller
FilterRun ==
    /\ uOut.n < MaxRun
    /\ \E new \in DriftSamples, checks \in BOOLEAN :
         LET f == adxl345_filter_out(new, ADXL345_LAST_SAMPLE, checks)
         IN  /\ f.ret # "panic"
             /\ ADXL345_LAST_SAMPLE' = f.last
             /\ uOut' = [n |-> uOut.n + 1, new |-> new, ret |-> f.ret,
                         sent |-> (uOut.sent \/ f.ret = "false"),
                         delivered |-> IF f.ret = "false" THEN new
                                       ELSE uOut.delivered]
    /\ UNCHANGED <<reg, devLock, DEVICE_PTR, lastLocked, caller, uIn>>

NextDrift == FilterRun

SpecDrift == InitDrift /\ [][NextDrift]_vars

\* C18: the filter compares a candidate with the sample observed just before
\* it, whether that one was delivered or not: the last sample always becomes
\* the candidate, and a candidate within 50 of its predecessor on all axes
\* is not delivered, however far it is from the sample delivered last.
C18_FilterComparesWithPredecessor ==
    [][uOut'.n = uOut.n + 1
        => /\ ADXL345_LAST_SAMPLE' = uOut'.new
           /\ WithinFilter(uOut'.new, ADXL345_LAST_SAMPLE)
                => /\ uOut'.ret = "true"
                   /\ uOut'.delivered = uOut.delivered
                   /\ uOut'.sent = uOut.sent]_vars

\* after a delivered sample, the second of two samples each within 50 of its
\* predecessor was filtered out although it is more than 50 away from the
\* delivered one
C18_Witness ==
    /\ uOut.sent /\ uOut.ret = "true" /\ uOut.n = MaxRun
    /\ ExceedsFilter(uOut.new, uOut.delivered)
    /\ ADXL345_LAST_SAMPLE = uOut.new

\* C19: a sample the filter rejects uses no output slot: nothing is written,
\* the byte count stays, and the call can still deliver as many records as
\* its buffer has room left for (the fill loop has at least as many
\* iterations left as the buffer has free slots).
C19_RejectedSampleKeepsSlot ==
    [][\A p \in Callers :
        (/\ Me(p).pc = "r_filter"
         /\ Stepped(p)
         /\ caller'[p].pc \notin {"r_write", "panicked"})
            => /\ caller'[p].wr = Me(p).wr
               /\ caller'[p].pc = "r_fill"
               /\ caller'[p].count = Me(p).count
               /\ Me(p).items - caller'[p].iter
                     >= Me(p).items - (Me(p).wr \div SampleSize)]_vars

\* C20: after a sample was written, read checks data_ready() again: 0 ends
\* the call with Ok(bytes written so far); 1 goes to the next iteration while
\* fewer than `items` iterations were used, and ends the call with Ok(count)
\* when they are used up; a failed check ends the call with EIO.
C20_RecheckAfterWrite ==
    [][\A p \in Callers :
        (Me(p).pc = "r_recheck" /\ Stepped(p))
            => /\ caller'[p].ready = "0"
                    => /\ caller'[p].pc = "idle"
                       /\ caller'[p].result = [kind |-> "Ok", n |-> Me(p).count]
               /\ (caller'[p].ready = "1" /\ Me(p).iter < Me(p).items)
                    => /\ caller'[p].pc = "r_fill"
                       /\ caller'[p].count = Me(p).count
               /\ (caller'[p].ready = "1" /\ Me(p).iter >= Me(p).items)
                    => /\ caller'[p].pc = "idle"
                       /\ caller'[p].result = [kind |-> "Ok", n |-> Me(p).count]
               /\ caller'[p].ready = "Err"
                    => /\ caller'[p].pc = "idle"
                       /\ caller'[p].result = [kind |-> "EIO", n |-> 0]
               /\ caller'[p].ready \in {"0", "1", "Err"}
               /\ Me(p).count = Me(p).wr
               /\ caller'[p].wr = Me(p).wr]_vars

\* a read with room for two records wrote one, found data_ready() = 0 and
\* returned 6
C20_Witness ==
    \E p \in Callers :
        /\ Returned(p, "read") /\ Me(p).result = [kind |-> "Ok", n |-> SampleSize]
        /\ Me(p).capacity = SampleSize * MaxItems + 1
        /\ Me(p).iter = 1 /\ Me(p).ready = "0"

(***************************************************************************)
(* The life of the device: Adxl345Driver::probe with adxl345_device_init,  *)
(* Adxl345Driver::remove with adxl345_device_clean, and one caller of the  *)
(* character device from the moment its node exists.  uOut is the thread   *)
(* of the bus that runs probe and remove, uIn the registers' values at     *)
(* power-on.                                                               *)
(***************************************************************************)
\* holder of the device lock when the probe/remove thread has it
Bus == "bus"
\* the caller of the character device
User == "a"
\* the bus transactions of set_default_config, in order
ConfigLen == 8
\* POWER_CTL at power-on: standby, measuring, measuring with other bits set
PowerOnPowerCtl == {0, 8, 44}
\* BW_RATE with LOW_POWER set and FIFO_CTL in stream mode at power-on
PowerOnBwRate == 26
PowerOnFifoCtl == 159

\* set_default_config that clears the whole high nibble of BW_RATE
set_default_config_nibble(i, r, v) ==
    CASE i = 1 -> [reg |-> [r EXCEPT ![ADXL345_REG_POWER_CTL] = 0], value |-> v]
      [] i = 2 -> [reg |-> [r EXCEPT ![ADXL345_REG_INT_ENABLE] = 0], value |-> v]
      [] i = 3 -> [reg |-> r, value |-> r[ADXL345_REG_BW_RATE]]
      [] i = 4 -> [reg |-> [r EXCEPT ![ADXL345_REG_BW_RATE] = v % 16],
                   value |-> v % 16]
      [] i = 5 -> [reg |-> [r EXCEPT ![ADXL345_REG_DATA_FORMAT] = 11], value |-> v]
      [] i = 6 -> [reg |-> [r EXCEPT ![ADXL345_REG_INT_MAP] = 0], value |-> v]
      [] i = 7 -> [reg |-> r, value |-> r[ADXL345_REG_FIFO_CTL]]
      [] OTHER -> [reg |-> [r EXCEPT ![ADXL345_REG_FIFO_CTL] =
                                        ClearBit(ClearBit(v % 256, 7), 6)],
                   value |-> ClearBit(ClearBit(v % 256, 7), 6)]

\* set_default_config: the registers and the local `value` after its i-th
\* transaction, begun with registers r and value v
set_default_config(i, r, v) ==
    CASE i = 1 -> [reg |-> [r EXCEPT ![ADXL345_REG_POWER_CTL] = 0], value |-> v]
      [] i = 2 -> [reg |-> [r EXCEPT ![ADXL345_REG_INT_ENABLE] = 0], value |-> v]
      [] i = 3 -> [reg |-> r, value |-> r[ADXL345_REG_BW_RATE]]
      [] i = 4 -> [reg |-> [r EXCEPT ![ADXL345_REG_BW_RATE] = ClearBit(v % 256, 4)],
                   value |-> ClearBit(v % 256, 4)]
      [] i = 5 -> [reg |-> [r EXCEPT ![ADXL345_REG_DATA_FORMAT] = 11], value |-> v]
      [] i = 6 -> [reg |-> [r EXCEPT ![ADXL345_REG_INT_MAP] = 0], value |-> v]
      [] i = 7 -> [reg |-> r, value |-> r[ADXL345_REG_FIFO_CTL]]
      [] OTHER -> [reg |-> [r EXCEPT ![ADXL345_REG_FIFO_CTL] =
                                        ClearBit(ClearBit(v % 256, 7), 6)],
                   value |-> ClearBit(ClearBit(v % 256, 7), 6)]

PowerOnRegs(power) ==
    [r \in ConfigRegs |->
        IF r = ADXL345_REG_POWER_CTL THEN power
        ELSE IF r = ADXL345_REG_BW_RATE THEN PowerOnBwRate
        ELSE IF r = ADXL345_REG_FIFO_CTL THEN PowerOnFifoCtl
        ELSE 0]

InitLifecycle ==
    /\ uIn \in [power : PowerOnPowerCtl]
    /\ reg = PowerOnRegs(uIn.power)
    /\ devLock = NoOne
    /\ DEVICE_PTR = FALSE
    /\ lastLocked = FALSE
    /\ ADXL345_LAST_SAMPLE = ZeroSample
    /\ caller = [p \in Callers |-> IdleCaller]
    /\ uOut = [pc |-> "unbound", step |-> 0, value |-> 0, init |-> "none",
               node |-> FALSE, registration |-> FALSE, result |-> "none",
               clean |-> "none"]

LifecycleFrame ==
    UNCHANGED <<lastLocked, ADXL345_LAST_SAMPLE, caller, uIn>>

\* adxl345_device_init returns Err (its guard on the device lock is dropped)
\* and probe's .expect("Failed Device initialization") panics
InitFailed(bus) ==
    [bus EXCEPT !.pc = "panicked", !.init = "Err", !.result = "panic",
                !.step = 0, !.value = 0]

\* the bus binds the driver: probe_callback finds the handler and calls
\* Adxl345Driver::probe
ProbeCall ==
    /\ uOut.pc = "unbound"
    /\ uOut' = [uOut EXCEPT !.pc = "i_lock"]
    /\ UNCHANGED <<reg, devLock, DEVICE_PTR>>
    /\ LifecycleFrame

\* adxl345_device_init: device.lock()
InitLock ==
    /\ uOut.pc = "i_lock"
    /\ devLock = NoOne
    /\ devLock' = Bus
    /\ uOut' = [uOut EXCEPT !.pc = "i_cfg", !.step = 1]
    /\ UNCHANGED <<reg, DEVICE_PTR>>
    /\ LifecycleFrame

\* one bus transaction of set_default_config; a failure leaves through `?`
InitConfig ==
    /\ uOut.pc = "i_cfg"
    /\ \E fail \in BOOLEAN :
         IF fail
         THEN /\ uOut' = InitFailed(uOut)
              /\ devLock' = NoOne
              /\ UNCHANGED reg
         ELSE LET s == set_default_config(uOut.step, reg, uOut.value)
              IN  /\ reg' = s.reg
                  /\ uOut' = IF uOut.step < ConfigLen
                             THEN [uOut EXCEPT !.step = @ + 1, !.value = s.value]
                             ELSE [uOut EXCEPT !.pc = "i_en_read", !.step = 0,
                                               !.value = 0]
                  /\ UNCHANGED devLock
    /\ UNCHANGED DEVICE_PTR
    /\ LifecycleFrame

\* enable_measure: read_register(POWER_CTL)
InitEnableRead ==
    /\ uOut.pc = "i_en_read"
    /\ \E fail \in BOOLEAN :
         IF fail
         THEN /\ uOut' = InitFailed(uOut)
              /\ devLock' = NoOne
         ELSE /\ uOut' = [uOut EXCEPT !.pc = "i_en_write",
                                      !.value = reg[ADXL345_REG_POWER_CTL]]
              /\ UNCHANGED devLock
    /\ UNCHANGED <<reg, DEVICE_PTR>>
    /\ LifecycleFrame

\* enable_measure: write_register(POWER_CTL, ret | 1 << 3); the block ends
\* and the lock is released for the delay
InitEnableWrite ==
    /\ uOut.pc = "i_en_write"
    /\ \E fail \in BOOLEAN :
         IF fail
         THEN /\ uOut' = InitFailed(uOut)
              /\ UNCHANGED reg
         ELSE /\ uOut' = [uOut EXCEPT !.pc = "i_sleep", !.value = 0]
              /\ reg' = [reg EXCEPT ![ADXL345_REG_POWER_CTL] =
                                       enable_measure_value(uOut.value)]
    /\ devLock' = NoOne
    /\ UNCHANGED DEVICE_PTR
    /\ LifecycleFrame

\* coarse_sleep(2 ms) without the lock
InitSleep ==
    /\ uOut.pc = "i_sleep"
    /\ uOut' = [uOut EXCEPT !.pc = "i_relock"]
    /\ UNCHANGED <<reg, devLock, DEVICE_PTR>>
    /\ LifecycleFrame

\* device.lock() again, for the test read
InitRelock ==
    /\ uOut.pc = "i_relock"
    /\ devLock = NoOne
    /\ devLock' = Bus
    /\ uOut' = [uOut EXCEPT !.pc = "i_data"]
    /\ UNCHANGED <<reg, DEVICE_PTR>>
    /\ LifecycleFrame

\* the test read: match adxl.read_data()
InitReadData ==
    /\ uOut.pc = "i_data"
    /\ \E n \in BlockCounts, data \in DeviceBlocks :
         IF read_data(n, data).kind = "Ok"
         THEN /\ uOut' = [uOut EXCEPT !.pc = "i_dis_read"]
              /\ UNCHANGED devLock
         ELSE /\ uOut' = InitFailed(uOut)
              /\ devLock' = NoOne
    /\ UNCHANGED <<reg, DEVICE_PTR>>
    /\ LifecycleFrame

\* disable_measure: read_register(POWER_CTL)
InitDisableRead ==
    /\ uOut.pc = "i_dis_read"
    /\ \E fail \in BOOLEAN :
         IF fail
         THEN /\ uOut' = InitFailed(uOut)
              /\ devLock' = NoOne
         ELSE /\ uOut' = [uOut EXCEPT !.pc = "i_dis_write",
                                      !.value = reg[ADXL345_REG_POWER_CTL]]
              /\ UNCHANGED devLock
    /\ UNCHANGED <<reg, DEVICE_PTR>>
    /\ LifecycleFrame

\* adxl345_device_init that returns without the write of disable_measure
InitDisableWrite_skipped ==
    /\ uOut.pc = "i_dis_write"
    /\ \E fail \in BOOLEAN :
         IF fail
         THEN /\ uOut' = InitFailed(uOut)
              /\ UNCHANGED reg
         ELSE /\ uOut' = [uOut EXCEPT !.pc = "p_chardev", !.value = 0,
                                      !.init = "Ok"]
              /\ UNCHANGED reg
    /\ devLock' = NoOne
    /\ UNCHANGED DEVICE_PTR
    /\ LifecycleFrame

\* disable_measure: write_register(POWER_CTL, ret & !(1 << 3)); the guard is
\* dropped and adxl345_device_init returns
InitDisableWrite ==
    /\ uOut.pc = "i_dis_write"
    /\ \E fail \in BOOLEAN :
         IF fail
         THEN /\ uOut' = InitFailed(uOut)
              /\ UNCHANGED reg
         ELSE /\ uOut' = [uOut EXCEPT !.pc = "p_chardev", !.value = 0,
                                      !.init = "Ok"]
              /\ reg' = [reg EXCEPT ![ADXL345_REG_POWER_CTL] =
                                       disable_measure_value(uOut.value)]
    /\ devLock' = NoOne
    /\ UNCHANGED DEVICE_PTR
    /\ LifecycleFrame

\* adxl345_chardev_add(...).expect(...): the node is registered, or probe
\* panics
ProbeChardevAdd ==
    /\ uOut.pc = "p_chardev"
    /\ \E fail \in BOOLEAN :
         uOut' = IF fail
                 THEN [uOut EXCEPT !.pc = "panicked", !.result = "panic"]
                 ELSE [uOut EXCEPT !.pc = "p_reg", !.node = TRUE]
    /\ UNCHANGED <<reg, devLock, DEVICE_PTR>>
    /\ LifecycleFrame

\* device.lock(); device_lock.registration = Some(registration); unlock
ProbeSetRegistration ==
    /\ uOut.pc = "p_reg"
    /\ devLock = NoOne
    /\ uOut' = [uOut EXCEPT !.pc = "p_ptr", !.registration = TRUE]
    /\ UNCHANGED <<reg, devLock, DEVICE_PTR>>
    /\ LifecycleFrame

\* DEVICE_PTR = Some(device_arc); Ok(())
ProbeSetPtr ==
    /\ uOut.pc = "p_ptr"
    /\ DEVICE_PTR' = TRUE
    /\ uOut' = [uOut EXCEPT !.pc = "bound", !.result = "Ok"]
    /\ UNCHANGED <<reg, devLock>>
    /\ LifecycleFrame

\* remove that empties DEVICE_PTR as its first step
RemoveCall_clearing ==
    /\ uOut.pc = "bound"
    /\ uOut' = [uOut EXCEPT !.pc = "x_lock", !.result = "none"]
    /\ DEVICE_PTR' = FALSE
    /\ UNCHANGED <<reg, devLock>>
    /\ LifecycleFrame

\* the bus unbinds the driver: remove_callback calls Adxl345Driver::remove
RemoveCall ==
    /\ uOut.pc = "bound"
    /\ uOut' = [uOut EXCEPT !.pc = "x_lock", !.result = "none"]
    /\ UNCHANGED <<reg, devLock, DEVICE_PTR>>
    /\ LifecycleFrame

\* adxl345_device_clean: device.lock()
CleanLock ==
    /\ uOut.pc = "x_lock"
    /\ devLock = NoOne
    /\ devLock' = Bus
    /\ uOut' = [uOut EXCEPT !.pc = "x_int"]
    /\ UNCHANGED <<reg, DEVICE_PTR>>
    /\ LifecycleFrame

\* adxl345_device_clean that goes on to POWER_CTL after a failed write of
\* INT_ENABLE
CleanIntEnable_goes_on ==
    /\ uOut.pc = "x_int"
    /\ \E fail \in BOOLEAN :
         IF fail
         THEN /\ uOut' = [uOut EXCEPT !.pc = "x_power", !.clean = "Err"]
              /\ UNCHANGED <<reg, devLock>>
         ELSE /\ uOut' = [uOut EXCEPT !.pc = "x_power"]
              /\ reg' = [reg EXCEPT ![ADXL345_REG_INT_ENABLE] = 0]
              /\ UNCHANGED devLock
    /\ UNCHANGED DEVICE_PTR
    /\ LifecycleFrame

\* write_register(INT_ENABLE, 0); on failure adxl345_device_clean returns the
\* error, which remove only logs
CleanIntEnable ==
    /\ uOut.pc = "x_int"
    /\ \E fail \in BOOLEAN :
         IF fail
         THEN /\ uOut' = [uOut EXCEPT !.pc = "x_reg", !.clean = "Err"]
              /\ devLock' = NoOne
              /\ UNCHANGED reg
         ELSE /\ uOut' = [uOut EXCEPT !.pc = "x_power"]
              /\ reg' = [reg EXCEPT ![ADXL345_REG_INT_ENABLE] = 0]
              /\ UNCHANGED devLock
    /\ UNCHANGED DEVICE_PTR
    /\ LifecycleFrame

\* write_register(POWER_CTL, 0); adxl345_device_clean returns and the guard
\* is dropped
CleanPowerCtl ==
    /\ uOut.pc = "x_power"
    /\ \E fail \in BOOLEAN :
         IF fail
         THEN /\ UNCHANGED reg
              /\ uOut' = [uOut EXCEPT !.pc = "x_reg", !.clean = "Err"]
         ELSE /\ reg' = [reg EXCEPT ![ADXL345_REG_POWER_CTL] = 0]
              /\ uOut' = [uOut EXCEPT !.pc = "x_reg", !.clean = "Ok"]
    /\ devLock' = NoOne
    /\ UNCHANGED DEVICE_PTR
    /\ LifecycleFrame

\* device.lock(); adxl.registration = None (the node is deregistered); unlock
RemoveRegistration ==
    /\ uOut.pc = "x_reg"
    /\ devLock = NoOne
    /\ uOut' = [uOut EXCEPT !.pc = "x_ptr", !.registration = FALSE,
                            !.node = FALSE]
    /\ UNCHANGED <<reg, devLock, DEVICE_PTR>>
    /\ LifecycleFrame

\* DEVICE_PTR = None
RemoveClearPtr ==
    /\ uOut.pc = "x_ptr"
    /\ DEVICE_PTR' = FALSE
    /\ uOut' = [uOut EXCEPT !.pc = "removed", !.result = "Ok"]
    /\ UNCHANGED <<reg, devLock>>
    /\ LifecycleFrame

\* open reaches the driver while the node is registered
NodeOpen ==
    /\ uOut.node
    /\ OpenCall(User)

NextLifecycle ==
    \/ ProbeCall
    \/ InitLock
    \/ InitConfig
    \/ InitEnableRead
    \/ InitEnableWrite
    \/ InitSleep
    \/ InitRelock
    \/ InitReadData
    \/ InitDisableRead
    \/ InitDisableWrite
    \/ ProbeChardevAdd
    \/ ProbeSetRegistration
    \/ ProbeSetPtr
    \/ RemoveCall
    \/ CleanLock
    \/ CleanIntEnable
    \/ CleanPowerCtl
    \/ RemoveRegistration
    \/ RemoveClearPtr
    \/ NodeOpen
    \/ OpenLock(User)
    \/ OpenEnableRead(User)
    \/ OpenEnableWrite(User)
    \/ OpenSleep(User)
    \/ OpenMutexInit(User)
    \/ OpenLastLock(User)
    \/ OpenReset(User)
    \/ ReleaseCall(User)
    \/ ReleaseLock(User)
    \/ ReleaseDisableRead(User)
    \/ ReleaseDisableWrite(User)
    \/ ReadCall(User)
    \/ ReadLock(User)
    \/ ReadWaitReady(User)
    \/ ReadSleep(User)
    \/ ReadData(User)
    \/ ReadFilterLock(User)
    \/ ReadFilter(User)
    \/ ReadWrite(User)
    \/ ReadRecheck(User)

SpecLifecycle == InitLifecycle /\ [][NextLifecycle]_vars

\* C15: open, read or release called while DEVICE_PTR is empty (before probe
\* has set it, or after remove has cleared it) fails cleanly: the call
\* returns (open and read with EINVAL) instead of crashing, and touches
\* neither the registers nor the device lock.  (An open in a write mode is
\* turned away with EPERM before DEVICE_PTR is looked at.)
C15_EmptyRegistryFailsCleanly ==
    [][\A p \in Callers :
        (/\ Me(p).pc = "idle"
         /\ Stepped(p)
         /\ ~DEVICE_PTR
         /\ ~(caller'[p].op = "open" /\ open_denied(caller'[p].flags.access)))
            => /\ caller'[p].pc = "idle"
               /\ caller'[p].result.kind # "panic"
               /\ caller'[p].op \in {"open", "read"}
                     => caller'[p].result.kind = "EINVAL"
               /\ UNCHANGED <<reg, devLock>>]_vars

\* C16: when adxl345_device_init fails in probe (a transport failure in
\* set_default_config, the test enable, the test read or the final disable),
\* probe returns an error to the bus, and the node is not registered, the
\* device's registration stays None and DEVICE_PTR stays empty.
C16_ProbeReportsConfigFailure ==
    [][(uOut.init = "none" /\ uOut'.init = "Err")
        => /\ uOut'.pc = "unbound"
           /\ uOut'.result = "EIO"
           /\ ~uOut'.node
           /\ ~uOut'.registration
           /\ ~DEVICE_PTR']_vars

\* C17: whatever POWER_CTL held at power-on, after set_default_config,
\* enable_measure and disable_measure have run without a transport failure
\* the measurement bit (bit 3 of POWER_CTL) is clear.
C17_ConfigEnableDisableClearsMeasure ==
    (uOut.pc = "p_chardev" /\ uOut.init = "Ok")
        => ~TestBit(reg[ADXL345_REG_POWER_CTL], 3)

\* the device powered on measuring (POWER_CTL = 44, bit 3 set) and the
\* sequence has run: the measurement bit is clear
C17_Witness ==
    /\ uOut.pc = "p_chardev" /\ uOut.init = "Ok"
    /\ uIn.power = 44 /\ TestBit(uIn.power, 3)
    /\ ~TestBit(reg[ADXL345_REG_POWER_CTL], 3)

(***************************************************************************)
(* Further properties of the pipeline.                                     *)
(***************************************************************************)
\* C21: read retries only in the readiness wait and only on not-ready: a
\* sleep follows nothing but a data_ready() = 0 of the wait loop, and a
\* failed data_ready() (wait loop or re-check) or a failed read_data() ends
\* the call with EIO at that step, the device lock free, no register touched.
C21_NoRetryOnError ==
    [][\A p \in Callers :
        /\ (Stepped(p) /\ caller'[p].pc = "r_sleep")
              => (Me(p).pc = "r_wait" /\ caller'[p].ready = "0")
        /\ (Me(p).pc \in {"r_wait", "r_recheck"} /\ Stepped(p)
              /\ caller'[p].ready = "Err")
              => /\ caller'[p].pc = "idle"
                 /\ caller'[p].result = [kind |-> "EIO", n |-> 0]
                 /\ caller'[p].iter = Me(p).iter
                 /\ devLock' = NoOne
                 /\ UNCHANGED reg
        /\ (Me(p).pc = "r_fill" /\ Stepped(p)
              /\ caller'[p].pc # "r_filter_lock")
              => /\ caller'[p].pc = "idle"
                 /\ caller'[p].result = [kind |-> "EIO", n |-> 0]
                 /\ caller'[p].iter = Me(p).iter + 1
                 /\ devLock' = NoOne
                 /\ UNCHANGED reg]_vars

\* a blocking read polled not-ready, slept, and its second data_ready()
\* failed: EIO after two polls and no sample block read
C21_Witness ==
    \E p \in Callers :
        /\ Returned(p, "read") /\ Me(p).result.kind = "EIO"
        /\ Me(p).ready = "Err" /\ Me(p).polls = 2 /\ Me(p).iter = 0

(***************************************************************************)
(* The register protocol of Adxl345 on its own: set_default_config,        *)
(* enable_measure and disable_measure called one after another on a device *)
(* whose registers hold any values, each bus transaction a step that can   *)
(* fail.  uIn is the register file at the entry of the call, uOut the call. *)
(***************************************************************************)
AnyPowerCtl == {0, 8, 44, 247}
AnyBwRate == {10, 26, 255}
AnyFifoCtl == {0, 159}
AnyIntEnable == {0, 128}
AnyIntMap == {0, 131}
AnyDataFormat == {0, 11}
RegisterOps == {"set_default_config", "enable_measure", "disable_measure"}

AnyRegs ==
    {[r \in ConfigRegs |->
         IF r = ADXL345_REG_POWER_CTL THEN p
         ELSE IF r = ADXL345_REG_BW_RATE THEN b
         ELSE IF r = ADXL345_REG_FIFO_CTL THEN f
         ELSE IF r = ADXL345_REG_INT_ENABLE THEN e
         ELSE IF r = ADXL345_REG_INT_MAP THEN m
         ELSE d] :
       p \in AnyPowerCtl, b \in AnyBwRate, f \in AnyFifoCtl,
       e \in AnyIntEnable, m \in AnyIntMap, d \in AnyDataFormat}

NoRegisterCall ==
    [pc |-> "idle", op |-> "none", step |-> 0, value |-> 0,
     result |-> "none", calls |-> 0]

InitConfigRegs ==
    /\ reg \in AnyRegs
    /\ uIn = reg
    /\ uOut = NoRegisterCall
    /\ devLock = NoOne
    /\ DEVICE_PTR = FALSE
    /\ lastLocked = FALSE
    /\ ADXL345_LAST_SAMPLE = ZeroSample
    /\ caller = [p \in Callers |-> IdleCaller]

ConfigFrame ==
    UNCHANGED <<devLock, DEVICE_PTR, lastLocked, ADXL345_LAST_SAMPLE, caller>>

\* the call returns result; step stays at the transaction it ended with
RegisterReturn(c, result) == [c EXCEPT !.pc = "idle", !.result = result, !.value = 0]

\* one of the three functions is called; the registers at entry are noted
RegisterCall ==
    /\ uOut.pc = "idle"
    /\ uOut.calls < MaxRegCalls
    /\ \E op \in RegisterOps :
         uOut' = [pc |-> IF op = "set_default_config" THEN "cfg"
                         ELSE IF op = "enable_measure" THEN "en_read"
                         ELSE "dis_read",
                  op |-> op, step |-> 1, value |-> 0, result |-> "none",
                  calls |-> uOut.calls + 1]
    /\ uIn' = reg
    /\ UNCHANGED reg
    /\ ConfigFrame

\* ConfigTransaction that restores the registers when a transaction fails
ConfigTransaction_rollback ==
    /\ uOut.pc = "cfg"
    /\ \E fail \in BOOLEAN :
         IF fail
         THEN /\ uOut' = RegisterReturn(uOut, "Err")
              /\ reg' = uIn
         ELSE LET s == set_default_config(uOut.step, reg, uOut.value)
              IN  /\ reg' = s.reg
                  /\ uOut' = IF uOut.step < ConfigLen
                             THEN [uOut EXCEPT !.step = @ + 1, !.value = s.value]
                             ELSE RegisterReturn(uOut, "Ok")
    /\ UNCHANGED uIn
    /\ ConfigFrame

\* one bus transaction of set_default_config: on failure `?` returns the
\* error, else the next transaction follows, Ok(()) after the last
ConfigTransaction ==
    /\ uOut.pc = "cfg"
    /\ \E fail \in BOOLEAN :
         IF fail
         THEN /\ uOut' = RegisterReturn(uOut, "Err")
              /\ UNCHANGED reg
         ELSE LET s == set_default_config(uOut.step, reg, uOut.value)
              IN  /\ reg' = s.reg
                  /\ uOut' = IF uOut.step < ConfigLen
                             THEN [uOut EXCEPT !.step = @ + 1, !.value = s.value]
                             ELSE RegisterReturn(uOut, "Ok")
    /\ UNCHANGED uIn
    /\ ConfigFrame

\* enable_measure: read_register(POWER_CTL), Err(e) returns
EnableRead ==
    /\ uOut.pc = "en_read"
    /\ \E fail \in BOOLEAN :
         uOut' = IF fail THEN RegisterReturn(uOut, "Err")
                 ELSE [uOut EXCEPT !.pc = "en_write", !.step = 2,
                                   !.value = reg[ADXL345_REG_POWER_CTL]]
    /\ UNCHANGED <<reg, uIn>>
    /\ ConfigFrame

\* enable_measure: ret |= 1 << 3; write_register(POWER_CTL, ret)
EnableWrite ==
    /\ uOut.pc = "en_write"
    /\ \E fail \in BOOLEAN :
         IF fail
         THEN /\ uOut' = RegisterReturn(uOut, "Err")
              /\ UNCHANGED reg
         ELSE /\ uOut' = RegisterReturn(uOut, "Ok")
              /\ reg' = [reg EXCEPT ![ADXL345_REG_POWER_CTL] =
                                       enable_measure_value(uOut.value)]
    /\ UNCHANGED uIn
    /\ ConfigFrame

\* disable_measure: read_register(POWER_CTL), Err(e) returns
DisableRead ==
    /\ uOut.pc = "dis_read"
    /\ \E fail \in BOOLEAN :
         uOut' = IF fail THEN RegisterReturn(uOut, "Err")
                 ELSE [uOut EXCEPT !.pc = "dis_write", !.step = 2,
                                   !.value = reg[ADXL345_REG_POWER_CTL]]
    /\ UNCHANGED <<reg, uIn>>
    /\ ConfigFrame

\* disable_measure: ret &= !(1 << 3); write_register(POWER_CTL, ret)
DisableWrite ==
    /\ uOut.pc = "dis_write"
    /\ \E fail \in BOOLEAN :
         IF fail
         THEN /\ uOut' = RegisterReturn(uOut, "Err")
              /\ UNCHANGED reg
         ELSE /\ uOut' = RegisterReturn(uOut, "Ok")
              /\ reg' = [reg EXCEPT ![ADXL345_REG_POWER_CTL] =
                                       disable_measure_value(uOut.value)]
    /\ UNCHANGED uIn
    /\ ConfigFrame

NextConfigRegs ==
    \/ RegisterCall
    \/ ConfigTransaction
    \/ EnableRead
    \/ EnableWrite
    \/ DisableRead
    \/ DisableWrite

SpecConfigRegs == InitConfigRegs /\ [][NextConfigRegs]_vars

\* the transaction of set_default_config that writes register r
WriteStep(r) ==
    IF r = ADXL345_REG_POWER_CTL THEN 1
    ELSE IF r = ADXL345_REG_INT_ENABLE THEN 2
    ELSE IF r = ADXL345_REG_BW_RATE THEN 4
    ELSE IF r = ADXL345_REG_DATA_FORMAT THEN 5
    ELSE IF r = ADXL345_REG_INT_MAP THEN 6
    ELSE 8

\* the value the default configuration gives register r, old its old value
ConfiguredValue(r, old) ==
    IF r = ADXL345_REG_BW_RATE
    THEN old - (IF (old \div 16) % 2 = 1 THEN 16 ELSE 0)
    ELSE IF r = ADXL345_REG_FIFO_CTL THEN old % 64
    ELSE IF r = ADXL345_REG_DATA_FORMAT THEN 11
    ELSE 0

\* the registers written by the transactions before the k-th hold their
\* configured values, the others what they held at entry
ConfiguredUpTo(k) ==
    \A r \in ConfigRegs :
        reg[r] = IF WriteStep(r) < k THEN ConfiguredValue(r, uIn[r]) ELSE uIn[r]

\* C22: set_default_config writes POWER_CTL, INT_ENABLE, BW_RATE,
\* DATA_FORMAT, INT_MAP, FIFO_CTL in this order, and with no transport
\* failure ends with POWER_CTL = 0, INT_ENABLE = 0, BW_RATE = old value with
\* bit 4 cleared, DATA_FORMAT = 0x0B, INT_MAP = 0, FIFO_CTL = old value with
\* bits 7:6 cleared.
C22_DefaultConfigOrderAndValues ==
    /\ uOut.pc = "cfg" => ConfiguredUpTo(uOut.step)
    /\ (uOut.pc = "idle" /\ uOut.op = "set_default_config" /\ uOut.result = "Ok")
          => /\ ConfiguredUpTo(ConfigLen + 1)
             /\ uOut.step = ConfigLen

\* set_default_config returned Ok on a device with BW_RATE = 255,
\* FIFO_CTL = 159 and the other registers non-zero
C22_Witness ==
    /\ uOut.pc = "idle" /\ uOut.op = "set_default_config" /\ uOut.result = "Ok"
    /\ uIn[ADXL345_REG_BW_RATE] = 255 /\ reg[ADXL345_REG_BW_RATE] = 239
    /\ uIn[ADXL345_REG_FIFO_CTL] = 159 /\ reg[ADXL345_REG_FIFO_CTL] = 31
    /\ uIn[ADXL345_REG_POWER_CTL] = 247 /\ uIn[ADXL345_REG_INT_MAP] = 131
    /\ reg[ADXL345_REG_DATA_FORMAT] = 11

\* C23: when the k-th transaction of set_default_config fails the function
\* returns the error at once: no later transaction is issued (the registers
\* they would write hold their old values) and the registers written by the
\* earlier transactions keep the values written.
C23_ConfigFailureNoRollback ==
    (uOut.pc = "idle" /\ uOut.op = "set_default_config" /\ uOut.result = "Err")
        => /\ uOut.step \in 1..ConfigLen
           /\ ConfiguredUpTo(uOut.step)

\* the fifth transaction (the write of DATA_FORMAT) failed: POWER_CTL and
\* BW_RATE keep what was written, FIFO_CTL and INT_MAP were not touched
C23_Witness ==
    /\ uOut.pc = "idle" /\ uOut.op = "set_default_config" /\ uOut.result = "Err"
    /\ uOut.step = 5
    /\ uIn[ADXL345_REG_POWER_CTL] = 44 /\ reg[ADXL345_REG_POWER_CTL] = 0
    /\ uIn[ADXL345_REG_BW_RATE] = 26 /\ reg[ADXL345_REG_BW_RATE] = 10
    /\ reg[ADXL345_REG_FIFO_CTL] = 159 /\ reg[ADXL345_REG_INT_MAP] = 131
    /\ reg[ADXL345_REG_DATA_FORMAT] = 0

\* bit 3 of the byte v
MeasureBit(v) == (v \div 8) % 2

\* C24: enable_measure and disable_measure read POWER_CTL, change bit 3 and
\* write it back: after a successful enable bit 3 is set, after a successful
\* disable it is clear, the other seven bits of POWER_CTL and all other
\* registers are as before; when the read fails nothing is written.
C24_MeasureBitOnly ==
    (uOut.pc = "idle" /\ uOut.op \in {"enable_measure", "disable_measure"})
        => /\ \A r \in ConfigRegs \ {ADXL345_REG_POWER_CTL} : reg[r] = uIn[r]
           /\ uOut.result = "Ok"
                => /\ MeasureBit(reg[ADXL345_REG_POWER_CTL])
                        = (IF uOut.op = "enable_measure" THEN 1 ELSE 0)
                   /\ reg[ADXL345_REG_POWER_CTL]
                            - 8 * MeasureBit(reg[ADXL345_REG_POWER_CTL])
                        = uIn[ADXL345_REG_POWER_CTL]
                            - 8 * MeasureBit(uIn[ADXL345_REG_POWER_CTL])
                   /\ uOut.step = 2
           /\ uOut.result = "Err" => reg = uIn
           /\ uOut.step = 1 => (uOut.result = "Err" /\ reg = uIn)

\* enable_measure on POWER_CTL = 247 (every bit but bit 3) gave 255
C24_Witness ==
    /\ uOut.pc = "idle" /\ uOut.op = "enable_measure" /\ uOut.result = "Ok"
    /\ uIn[ADXL345_REG_POWER_CTL] = 247 /\ reg[ADXL345_REG_POWER_CTL] = 255

\* C25: read_data accepts only a block read of exactly 6 bytes: any other
\* count returned (0..5, more than 6) gives an error and no sample, and the
\* read call that invoked it fails with EIO.
C25_OnlySixBytesAccepted ==
    uOut.kind # "none"
        => /\ uIn.n # 6 => /\ uOut.kind \in {"EINVAL", "EIO_BUS"}
                           /\ uOut.sample = ZeroSample
                           /\ uOut.read = "EIO"
           /\ uIn.n \in 0..5 \cup {7} => uOut.kind = "EINVAL"
           /\ uOut.kind = "Ok" => (uIn.n = 6 /\ uOut.read = "Ok")

\* a block read that returned 7 bytes was refused and read failed with EIO
C25_Witness ==
    /\ uIn.n = 7 /\ uIn.data = <<4, 31, 8, 127, 12, 64>>
    /\ uOut.kind = "EINVAL" /\ uOut.read = "EIO"

\* the positions of open before the reset of the last sample
BeforeReset == {"o_lock", "o_en_read", "o_en_write", "o_sleep",
                "o_mutex_init", "o_last_lock"}

\* C26: a successful read-only open performs enable_measure, then the
\* wake-up delay, then the reset of ADXL345_LAST_SAMPLE to (0, 0, 0), in
\* this order; when enable_measure fails open fails with EIO and leaves
\* ADXL345_LAST_SAMPLE as it was.
C26_OpenEnableSleepReset ==
    [][\A p \in Callers :
         (Stepped(p) /\ caller'[p].op = "open") =>
            \* the delay begins only after the write of enable_measure
            /\ caller'[p].pc = "o_sleep"
                 => /\ Me(p).pc = "o_en_write"
                    /\ Me(p).flags.access = "O_RDONLY"
                    /\ reg'[ADXL345_REG_POWER_CTL] = Me(p).ret + 8 * (1 - MeasureBit(Me(p).ret))
            /\ caller'[p].pc = "o_en_write" => Me(p).pc = "o_en_read"
            \* the reset begins only after the delay
            /\ caller'[p].pc = "o_mutex_init" => Me(p).pc = "o_sleep"
            /\ caller'[p].pc = "o_last_lock" => Me(p).pc = "o_mutex_init"
            /\ caller'[p].pc = "o_reset" => Me(p).pc = "o_last_lock"
            \* success is the reset, the last step
            /\ (caller'[p].pc = "idle" /\ caller'[p].result.kind = "Ok")
                 => /\ Me(p).pc = "o_reset"
                    /\ ADXL345_LAST_SAMPLE' = ZeroSample
            \* nothing before the reset touches the last sample
            /\ Me(p).pc \in BeforeReset
                 => ADXL345_LAST_SAMPLE' = ADXL345_LAST_SAMPLE
            \* a failure of enable_measure ends the call with EIO
            /\ (Me(p).pc \in {"o_en_read", "o_en_write"}
                   /\ caller'[p].pc \notin {"o_en_write", "o_sleep"})
                 => /\ caller'[p].pc = "idle"
                    /\ caller'[p].result.kind = "EIO"
                    /\ ADXL345_LAST_SAMPLE' = ADXL345_LAST_SAMPLE
            /\ (caller'[p].pc = "idle" /\ caller'[p].result.kind = "EIO")
                 => Me(p).pc \in {"o_en_read", "o_en_write"}
      ]_vars

\* an open failed with EIO while the last sample was not the zero sample
C26_Witness ==
    \E p \in Callers :
        /\ Returned(p, "open") /\ Me(p).result.kind = "EIO"
        /\ ADXL345_LAST_SAMPLE # ZeroSample

\* C27: release is best-effort: it attempts disable_measure once, under the
\* device lock, and returns whatever the outcome; when the register read of
\* disable_measure fails POWER_CTL is left as it was and no error is
\* reported.
C27_ReleaseBestEffort ==
    [][\A p \in Callers :
         (Stepped(p) /\ caller'[p].op = "release") =>
            \* disable_measure runs once and with the lock held
            /\ caller'[p].pc = "c_dis_read"
                 => (Me(p).pc = "c_lock" /\ devLock' = p)
            /\ caller'[p].pc = "c_dis_write" => Me(p).pc = "c_dis_read"
            /\ Me(p).pc \in {"c_dis_read", "c_dis_write"}
                 => /\ devLock = p
                    /\ caller'[p].pc \in {"c_dis_write", "idle"}
            \* the call returns Ok from either transaction, lock dropped
            /\ caller'[p].pc = "idle"
                 => /\ Me(p).pc \in {"c_dis_read", "c_dis_write"}
                    /\ caller'[p].result.kind = "Ok"
                    /\ devLock' = NoOne
                    /\ ~caller'[p].open
            \* the read writes nothing, failed or not
            /\ Me(p).pc = "c_dis_read" => reg' = reg
            /\ Me(p).pc = "c_dis_write"
                 => reg'[ADXL345_REG_POWER_CTL]
                        \in {reg[ADXL345_REG_POWER_CTL],
                             Me(p).ret - 8 * MeasureBit(Me(p).ret)}
      ]_vars

\* the only caller that ever opened the file has released it with Ok and
\* the device is still measuring: its disable_measure failed
C27_Witness ==
    \E p \in Callers :
        /\ Returned(p, "release") /\ Me(p).result.kind = "Ok"
        /\ MeasureBit(reg[ADXL345_REG_POWER_CTL]) = 1
        /\ \A q \in Callers \ {p} : caller[q] = IdleCaller

(***************************************************************************)
(* Further properties of the binding.                                      *)
(***************************************************************************)
\* the bus device and its handles, the count of invocations left out
BusState(bus) ==
    <<bus.device, bus.client, bus.clientdata, bus.driver, bus.unregs,
      bus.unregBy>>

\* C28: with a handler attached, probe, command and detect return 0 when
\* the handler method succeeds and the negative error code of the handler's
\* error otherwise; the default command and detect return 0, the default
\* shutdown and alert change no state.
C28_HandlerOutcomeTranslated ==
    [][(uIn.pc = "handler" /\ uIn'.pc = "idle") =>
          /\ uOut.clientdata # "null"
          /\ uIn'.event = uIn.event
          /\ uIn'.event \in ReturningEvents
               => /\ uIn'.res = "Ok" => uIn'.ret = [neg |-> FALSE, code |-> "0"]
                  /\ uIn'.res # "Ok"
                       => uIn'.ret = [neg |-> TRUE, code |-> uIn'.res]
          /\ (uIn'.method = "default" /\ uIn'.event \in {"command", "detect"})
               => uIn'.ret = [neg |-> FALSE, code |-> "0"]
          /\ (uIn'.method = "default" /\ uIn'.event \in {"shutdown", "alert"})
               => /\ BusState(uOut') = BusState(uOut)
                  /\ <<reg, devLock, DEVICE_PTR, lastLocked,
                       ADXL345_LAST_SAMPLE, caller>>'
                       = <<reg, devLock, DEVICE_PTR, lastLocked,
                           ADXL345_LAST_SAMPLE, caller>>
      ]_vars

\* the handler's own command method failed with EIO and the bus got -EIO
C28_Witness ==
    /\ uIn.pc = "idle" /\ uIn.event = "command" /\ uIn.method = "own"
    /\ uIn.res = "EIO" /\ uIn.ret = [neg |-> TRUE, code |-> "EIO"]
    /\ uOut.clientdata # "null"

(***************************************************************************)
(* Further properties of probe and remove.                                 *)
(***************************************************************************)
\* C29 as stated: in remove DEVICE_PTR is cleared at the start, so it is
\* empty before the cleanup writes (INT_ENABLE, POWER_CTL) are issued and
\* before the character device is deregistered.
C29_RegistryClearedAtStart ==
    uOut.pc \in {"x_int", "x_power", "x_reg"} => ~DEVICE_PTR

\* C29 amended: in remove DEVICE_PTR is cleared at the end: it is still set
\* while the cleanup writes (INT_ENABLE, POWER_CTL) are issued and while the
\* character device is deregistered, and it is emptied by remove's last
\* step, after both.
C29_RegistryClearedLast ==
    /\ uOut.pc \in {"x_lock", "x_int", "x_power", "x_reg", "x_ptr"}
         => DEVICE_PTR
    /\ uOut.pc = "x_ptr" => (~uOut.registration /\ ~uOut.node)
    /\ uOut.pc = "removed"
         => (~DEVICE_PTR /\ ~uOut.registration /\ ~uOut.node)

\* remove has written both registers and deregistered the node, and
\* DEVICE_PTR still holds the device
C29_Witness ==
    /\ uOut.pc = "x_ptr" /\ DEVICE_PTR
    /\ ~uOut.node /\ ~uOut.registration
    /\ reg[ADXL345_REG_INT_ENABLE] = 0 /\ reg[ADXL345_REG_POWER_CTL] = 0

\* the handler method of event e has been invoked and has returned
Handled(e) ==
    /\ uOut.invoked[e] > 0
    /\ ~(uIn.pc = "handler" /\ uIn.event = e)

\* C30 as stated: the clientdata of the bus device is set at probe and
\* cleared at remove: it is null before the probe event is dispatched and
\* null after the remove event has been dispatched.
C30_SetAtProbe ==
    /\ uOut.invoked["probe"] = 0 => uOut.clientdata = "null"
    /\ Handled("remove") => uOut.clientdata = "null"

\* C30 amended: the clientdata of the bus device is set exactly once, by
\* the module's initialisation before the driver is added to the bus, and
\* cleared at remove: it is non-null whenever an event, probe included, is
\* dispatched to the handler, and null after the remove event has been
\* dispatched to the handler.
C30_SetAtInitClearedAtRemove ==
    [][/\ uOut'.clientdata # uOut.clientdata
            => \/ /\ uOut.clientdata = "null"
                  /\ uOut.driver = "none" /\ uOut'.driver = "none"
                  /\ \A e \in Events : uOut.invoked[e] = 0
               \/ /\ uOut'.clientdata = "null"
                  /\ uIn.pc = "handler" /\ uIn.event = "remove"
                  /\ uIn'.pc = "idle"
       /\ uOut.driver # "none" => uOut'.driver # "none"
       /\ uIn'.pc = "handler" => uOut'.clientdata # "null"
       /\ (uIn.pc = "handler" /\ uIn.event = "remove" /\ uIn'.pc = "idle")
            => uOut'.clientdata = "null"
       /\ (uOut.invoked["remove"] > 0 /\ uOut.clientdata = "null")
            => uOut'.clientdata = "null"
      ]_vars

\* probe and remove have both been handled: the clientdata set before the
\* driver was added served probe and was cleared by remove
C30_Witness ==
    /\ uIn.pc = "idle"
    /\ uOut.invoked["probe"] = 1 /\ uOut.invoked["remove"] = 1
    /\ uIn.event = "remove" /\ uIn.res = "Ok"
    /\ uOut.clientdata = "null" /\ uOut.driver = "added"

\* the positions of probe and remove after adxl345_device_init has returned
AfterInit == {"p_chardev", "p_reg", "p_ptr", "bound", "x_lock", "x_int",
              "x_power", "x_reg", "x_ptr", "removed"}

\* C31: a successful probe runs set_default_config once, one test
\* read_data and then disable_measure, so that when probe returns the
\* measurement bit is clear, the character device is registered and
\* DEVICE_PTR holds the device; after that the measurement bit is set again
\* only by an open.
C31_ProbeLeavesStandby ==
    [][/\ uOut'.pc # uOut.pc =>
            \* the order of adxl345_device_init and of probe
            /\ uOut'.pc = "i_cfg" => (uOut.pc = "i_lock" /\ uOut'.step = 1)
            /\ uOut'.pc = "i_en_read"
                 => (uOut.pc = "i_cfg" /\ uOut.step = ConfigLen)
            /\ uOut'.pc = "i_en_write" => uOut.pc = "i_en_read"
            /\ uOut'.pc = "i_sleep" => uOut.pc = "i_en_write"
            /\ uOut'.pc = "i_relock" => uOut.pc = "i_sleep"
            /\ uOut'.pc = "i_data" => uOut.pc = "i_relock"
            /\ uOut'.pc = "i_dis_read" => uOut.pc = "i_data"
            /\ uOut'.pc = "i_dis_write" => uOut.pc = "i_dis_read"
            /\ uOut'.pc = "p_chardev"
                 => /\ uOut.pc = "i_dis_write"
                    /\ (reg'[ADXL345_REG_POWER_CTL] \div 8) % 2 = 0
            /\ uOut'.pc = "p_reg" => uOut.pc = "p_chardev"
            /\ uOut'.pc = "p_ptr" => uOut.pc = "p_reg"
            \* probe returns Ok
            /\ uOut'.pc = "bound"
                 => /\ uOut.pc = "p_ptr"
                    /\ uOut'.result = "Ok" /\ uOut'.init = "Ok"
                    /\ (reg'[ADXL345_REG_POWER_CTL] \div 8) % 2 = 0
                    /\ uOut'.node /\ uOut'.registration
                    /\ DEVICE_PTR'
       \* within set_default_config the transactions go one by one
       /\ (uOut.pc = "i_cfg" /\ uOut'.pc = "i_cfg" /\ uOut' # uOut)
            => uOut'.step = uOut.step + 1
       \* after the initialisation only an open sets the bit
       /\ (uOut.pc \in AfterInit
             /\ (reg[ADXL345_REG_POWER_CTL] \div 8) % 2 = 0
             /\ (reg'[ADXL345_REG_POWER_CTL] \div 8) % 2 = 1)
            => /\ caller[User].op = "open"
               /\ caller[User].pc = "o_en_write"
               /\ caller'[User].pc = "o_sleep"
      ]_vars

\* probe has returned Ok from a device that powered on measuring: standby,
\* node registered, DEVICE_PTR set, and no call has been made on the node
C31_Witness ==
    /\ uOut.pc = "bound" /\ uOut.result = "Ok"
    /\ uIn.power = 44
    /\ (reg[ADXL345_REG_POWER_CTL] \div 8) % 2 = 0
    /\ uOut.node /\ DEVICE_PTR
    /\ caller[User] = IdleCaller

(***************************************************************************)
(* I2CDriver: build, add_driver and remove_driver (rust/kernel/i2c/         *)
(* driver.rs).  uOut is the I2CDriver with the i2c_driver it points to,     *)
(* uIn the call in progress.  The pointer is never reset by remove_driver:  *)
(* after the first call it dangles, and what i2c_del_driver and the drop do *)
(* with it is undefined: the kernel stops (oops) or the call goes on.       *)
(***************************************************************************)
InitTeardown ==
    /\ reg = ProbedRegs
    /\ devLock = NoOne
    /\ DEVICE_PTR = FALSE
    /\ lastLocked = FALSE
    /\ ADXL345_LAST_SAMPLE = ZeroSample
    /\ caller = [p \in Callers |-> IdleCaller]
    /\ uIn = [pc |-> "idle", calls |-> 0, adds |-> 0, ret |-> "none"]
    /\ uOut = [driver |-> "none", alloc |-> "none", registered |-> FALSE,
               dels |-> 0, frees |-> 0, delsOnFreed |-> 0, early |-> FALSE]

\* I2CDriverBuilder::build: Box::into_raw(Box::try_new(driver)?); an Err is
\* met with .expect in Adxl345Module::init
build ==
    /\ uIn.pc = "idle"
    /\ uOut.driver = "none"
    /\ \E fail \in BOOLEAN :
         IF fail
         THEN /\ uIn' = [uIn EXCEPT !.pc = "stopped"]
              /\ UNCHANGED uOut
         ELSE /\ uOut' = [uOut EXCEPT !.driver = "valid", !.alloc = "live"]
              /\ UNCHANGED uIn
    /\ UNCHANGED <<reg, devLock, DEVICE_PTR, lastLocked,
                   ADXL345_LAST_SAMPLE, caller>>

\* I2CDriver::add_driver: the null check, then i2c_add_driver(self.driver)
\* and to_result(ret); on a freed i2c_driver the call is undefined
add_driver ==
    /\ uIn.pc = "idle"
    /\ uOut.driver # "none"
    /\ uIn.adds < MaxTeardowns
    /\ ~uOut.registered
    /\ IF uOut.driver = "null"
       THEN /\ uIn' = [uIn EXCEPT !.adds = @ + 1, !.ret = "EINVAL"]
            /\ UNCHANGED uOut
       ELSE \E ok \in BOOLEAN, oops \in BOOLEAN :
              IF uOut.alloc = "freed" /\ oops
              THEN /\ uIn' = [uIn EXCEPT !.adds = @ + 1, !.pc = "stopped"]
                   /\ UNCHANGED uOut
              ELSE /\ uIn' = [uIn EXCEPT !.adds = @ + 1,
                                         !.ret = IF ok THEN "Ok" ELSE "Err"]
                   /\ uOut' = IF ok THEN [uOut EXCEPT !.registered = TRUE]
                              ELSE uOut
    /\ UNCHANGED <<reg, devLock, DEVICE_PTR, lastLocked,
                   ADXL345_LAST_SAMPLE, caller>>

\* remove_driver entered: the null check
remove_driver ==
    /\ uIn.pc = "idle"
    /\ uOut.driver # "none"
    /\ uIn.calls < MaxTeardowns
    /\ uIn' = [uIn EXCEPT !.calls = @ + 1,
                          !.pc = IF uOut.driver = "null" THEN "idle"
                                 ELSE "del"]
    /\ UNCHANGED uOut
    /\ UNCHANGED <<reg, devLock, DEVICE_PTR, lastLocked,
                   ADXL345_LAST_SAMPLE, caller>>

\* bindings::i2c_del_driver(self.driver)
i2c_del_driver ==
    /\ uIn.pc = "del"
    /\ IF uOut.alloc = "live"
       THEN /\ uOut' = [uOut EXCEPT !.registered = FALSE, !.dels = @ + 1]
            /\ uIn' = [uIn EXCEPT !.pc = "free"]
       ELSE \E oops \in BOOLEAN :
              IF oops
              THEN /\ uIn' = [uIn EXCEPT !.pc = "stopped"]
                   /\ UNCHANGED uOut
              ELSE /\ uOut' = [uOut EXCEPT !.registered = FALSE,
                                           !.dels = @ + 1,
                                           !.delsOnFreed = @ + 1]
                   /\ uIn' = [uIn EXCEPT !.pc = "free"]
    /\ UNCHANGED <<reg, devLock, DEVICE_PTR, lastLocked,
                   ADXL345_LAST_SAMPLE, caller>>

\* drop(Box::from_raw(self.driver)); self.driver keeps its value
drop_Box_from_raw ==
    /\ uIn.pc = "free"
    /\ IF uOut.alloc = "live"
       THEN /\ uOut' = [uOut EXCEPT !.alloc = "freed", !.driver = "dangling",
                                    !.frees = @ + 1,
                                    !.early = @ \/ uOut.registered]
            /\ uIn' = [uIn EXCEPT !.pc = "idle"]
       ELSE \E oops \in BOOLEAN :
              IF oops
              THEN /\ uIn' = [uIn EXCEPT !.pc = "stopped"]
                   /\ UNCHANGED uOut
              ELSE /\ uOut' = [uOut EXCEPT !.frees = @ + 1]
                   /\ uIn' = [uIn EXCEPT !.pc = "idle"]
    /\ UNCHANGED <<reg, devLock, DEVICE_PTR, lastLocked,
                   ADXL345_LAST_SAMPLE, caller>>

NextTeardown ==
    \/ build
    \/ add_driver
    \/ remove_driver
    \/ i2c_del_driver
    \/ drop_Box_from_raw

SpecTeardown == InitTeardown /\ [][NextTeardown]_vars

\* C32: teardown deregisters the driver from the bus and then releases the
\* allocation, in this order and each once per built driver: over any
\* sequence of remove_driver calls on one I2CDriver the allocation is never
\* released twice and never released before the deregistration.
C32_TeardownOnce ==
    /\ uOut.frees <= 1
    /\ uOut.frees <= uOut.dels
    /\ ~uOut.early

(***************************************************************************)
(* Properties of the pipeline under concurrent callers.                    *)
(***************************************************************************)
\* caller p is inside a critical section of ADXL345_LAST_SAMPLE: the
\* compare and update of the filter, or the reset at open
InBaselineSection(p) == Me(p).pc \in {"r_filter", "o_reset"}

\* C33: the mutex of ADXL345_LAST_SAMPLE gives mutual exclusion at all
\* times: in every interleaving of opens and reads at most one caller is
\* inside a critical section of the last sample, also when an open runs
\* while another caller's read is inside the filter.
C33_BaselineMutualExclusion ==
    \A p, q \in Callers :
        (InBaselineSection(p) /\ InBaselineSection(q)) => p = q

\* C34: whenever at least one handle is open (opened with success and not
\* yet released) the measurement bit of POWER_CTL is set; with two handles
\* open, the release of one leaves the device measuring for the other.
C34_MeasuringWhileOpen ==
    (\E p \in Callers : Me(p).open)
        => (reg[ADXL345_REG_POWER_CTL] \div 8) % 2 = 1

(***************************************************************************)
(* The pipeline under fair scheduling.  The transport never fails, the      *)
(* device raises DATA_READY exactly while POWER_CTL has the measurement bit *)
(* set, and the readiness loop is not cut off after MaxPolls polls.  A      *)
(* thread inside a call is scheduled again and again, and the device lock   *)
(* (a kernel spinlock, which queues its waiters) is fair to its waiters;    *)
(* that a caller makes another call is never required.                      *)
(***************************************************************************)
\* one turn of the readiness loop, the polls not counted
ReadWaitReadyLive(p) ==
    /\ Me(p).pc = "r_wait"
    /\ \E v \in IntSourceReads :
         LET r == data_ready(v)
             arm == read_wait_arm(r, Me(p).flags.nonblock)
             c == [Me(p) EXCEPT !.ready = r]
             d == IF arm = "break" THEN [c EXCEPT !.pc = "r_fill"]
                  ELSE IF arm = "sleep" THEN [c EXCEPT !.pc = "r_sleep"]
                  ELSE Return(c, arm, 0)
         IN  /\ Upd(p, d)
             /\ devLock' = Unlocked(d)
    /\ UNCHANGED <<reg, DEVICE_PTR, lastLocked,
                   ADXL345_LAST_SAMPLE, uIn, uOut>>

\* the hypothesis on the transport and the device: no transaction fails,
\* INT_SOURCE shows DATA_READY exactly while the device measures
LiveEnv ==
    \A p \in Callers :
        Stepped(p) =>
            /\ caller'[p].result.kind # "EIO"
            /\ Me(p).pc = "c_dis_read" => caller'[p].pc = "c_dis_write"
            /\ Me(p).pc = "c_dis_write"
                 => (reg'[ADXL345_REG_POWER_CTL] \div 8) % 2 = 0
            /\ Me(p).pc \in {"r_wait", "r_recheck"}
                 => caller'[p].ready
                      = (IF (reg[ADXL345_REG_POWER_CTL] \div 8) % 2 = 1
                         THEN "1" ELSE "0")

\* a step of caller p: a step of the pipeline on that transport and device
LiveStep(p) ==
    \/ /\ OpenCall(p)
       /\ LiveEnv
    \/ /\ OpenLock(p)
       /\ LiveEnv
    \/ /\ OpenEnableRead(p)
       /\ LiveEnv
    \/ /\ OpenEnableWrite(p)
       /\ LiveEnv
    \/ /\ OpenSleep(p)
       /\ LiveEnv
    \/ /\ OpenMutexInit(p)
       /\ LiveEnv
    \/ /\ OpenLastLock(p)
       /\ LiveEnv
    \/ /\ OpenReset(p)
       /\ LiveEnv
    \/ /\ ReleaseCall(p)
       /\ LiveEnv
    \/ /\ ReleaseLock(p)
       /\ LiveEnv
    \/ /\ ReleaseDisableRead(p)
       /\ LiveEnv
    \/ /\ ReleaseDisableWrite(p)
       /\ LiveEnv
    \/ /\ ReadCall(p)
       /\ LiveEnv
    \/ /\ ReadLock(p)
       /\ LiveEnv
    \/ /\ ReadWaitReadyLive(p)
       /\ LiveEnv
    \/ /\ ReadSleep(p)
       /\ LiveEnv
    \/ /\ ReadData(p)
       /\ LiveEnv
    \/ /\ ReadFilterLock(p)
       /\ LiveEnv
    \/ /\ ReadFilter(p)
       /\ LiveEnv
    \/ /\ ReadWrite(p)
       /\ LiveEnv
    \/ /\ ReadRecheck(p)
       /\ LiveEnv

NextLive == \E p \in Callers : LiveStep(p)

SpecLive ==
    /\ Init
    /\ [][NextLive]_vars
    /\ \A p \in Callers : SF_vars(Me(p).pc # "idle" /\ LiveStep(p))

\* C35: with a transport that never fails and a device that is ready
\* whenever it measures, under fair scheduling every blocking read on an
\* open handle returns in the end, and so does every open and release made
\* meanwhile: no caller waits for ever on the device lock.
C35_CallsReturn ==
    \A p \in Callers : (Me(p).pc # "idle") ~> (Me(p).pc = "idle")

(***************************************************************************)
(* Further properties of probe, remove and the binding.                    *)
(***************************************************************************)
\* C36: whenever the character device is registered (an open can arrive)
\* DEVICE_PTR holds the device: at no point of probe or remove is the node
\* registered while DEVICE_PTR is empty.
C36_NodeImpliesRegistry ==
    uOut.node => DEVICE_PTR

\* the positions at which a caller's next step is a register transaction
CallerTransactions == {"o_en_read", "o_en_write", "c_dis_read", "c_dis_write",
                       "r_wait", "r_fill", "r_recheck"}
\* the same for probe's initialisation and remove's cleanup
BusTransactions == {"i_cfg", "i_en_read", "i_en_write", "i_data",
                    "i_dis_read", "i_dis_write", "x_int", "x_power"}

\* every register transaction of open, read and release is made with the
\* device lock held, and between the read and the write of enable_measure
\* or disable_measure POWER_CTL still holds the value read
CallerTransactionsLocked ==
    \A p \in Callers :
        /\ Me(p).pc \in CallerTransactions => devLock = p
        /\ Me(p).pc \in {"o_en_write", "c_dis_write"}
             => reg[ADXL345_REG_POWER_CTL] = Me(p).ret

\* C37: register transactions of different operations never interleave:
\* every register access of open, read, release, probe's initialisation and
\* remove's cleanup is made with the device lock held, so each
\* read-modify-write of POWER_CTL by enable_measure or disable_measure is
\* atomic with respect to every other operation.
C37_TransactionsUnderLock ==
    /\ CallerTransactionsLocked
    /\ uOut.pc \in BusTransactions => devLock = Bus
    /\ uOut.pc \in {"i_en_write", "i_dis_write"}
         => reg[ADXL345_REG_POWER_CTL] = uOut.value
    /\ \A p \in Callers :
         ~(Me(p).pc \in CallerTransactions /\ uOut.pc \in BusTransactions)

\* a release is between the read and the write of disable_measure while
\* remove waits for the device lock
C37_Witness ==
    /\ Me(User).pc = "c_dis_write" /\ devLock = User
    /\ uOut.pc = "x_lock"
    /\ reg[ADXL345_REG_POWER_CTL] = 8

\* C38: once the remove event has been dispatched to the handler the
\* clientdata of the device is null, so no later event for the device
\* (shutdown, alert, command, detect, a second remove, a new probe) invokes
\* a handler method.
C38_NoHandlerAfterRemove ==
    [][Handled("remove")
         => /\ uOut.clientdata = "null" /\ uOut'.clientdata = "null"
            /\ uIn.pc = "idle" /\ uIn'.pc = "idle"
            /\ uOut'.invoked = uOut.invoked
            /\ uIn'.res = "none" \/ uIn' = uIn
      ]_vars

\* after remove was handled a command event arrived: no handler method was
\* invoked and the bus got -EINVAL
C38_Witness ==
    /\ Handled("remove")
    /\ uIn.pc = "idle" /\ uIn.event = "command" /\ uIn.logged = "command"
    /\ uIn.ret = [neg |-> TRUE, code |-> "EINVAL"]
    /\ uOut.invoked["command"] = 0
    /\ uOut.clientdata = "null"

\* C39: remove ends with the character device deregistered and DEVICE_PTR
\* empty also when the cleanup of the device fails; the cleanup writes
\* INT_ENABLE = 0 and then POWER_CTL = 0, and a failed first write skips the
\* second and leaves POWER_CTL as it was.
C39_RemoveEndsClean ==
    [][/\ uOut'.pc = "removed"
            => /\ ~uOut'.node /\ ~uOut'.registration /\ ~DEVICE_PTR'
               /\ uOut'.clean \in {"Ok", "Err"}
       /\ (uOut.pc = "x_int" /\ uOut' # uOut)
            => \/ /\ uOut'.pc = "x_power" /\ uOut'.clean = "none"
                  /\ reg'[ADXL345_REG_INT_ENABLE] = 0
                  /\ reg'[ADXL345_REG_POWER_CTL] = reg[ADXL345_REG_POWER_CTL]
               \/ /\ uOut'.pc = "x_reg" /\ uOut'.clean = "Err"
                  /\ reg' = reg
       /\ (uOut.pc = "x_power" /\ uOut' # uOut)
            => /\ uOut'.pc = "x_reg"
               /\ uOut.clean = "none"
               /\ \/ uOut'.clean = "Ok" /\ reg'[ADXL345_REG_POWER_CTL] = 0
                  \/ uOut'.clean = "Err" /\ reg' = reg
       /\ (uOut'.pc = "x_power" /\ uOut.pc # "x_power") => uOut.pc = "x_int"
       /\ (uOut.pc = "x_reg" /\ uOut' # uOut)
            => (uOut'.pc = "x_ptr" /\ ~uOut'.node /\ uOut'.clean = uOut.clean)
       /\ (uOut.pc = "x_ptr" /\ uOut' # uOut) => uOut'.pc = "removed"
      ]_vars

\* remove has ended after a failed cleanup that left the device measuring:
\* the node is gone and DEVICE_PTR is empty
C39_Witness ==
    /\ uOut.pc = "removed" /\ uOut.clean = "Err"
    /\ reg[ADXL345_REG_POWER_CTL] = 8
    /\ ~uOut.node /\ ~uOut.registration /\ ~DEVICE_PTR

\* C40: the first sample after an open is compared with the zero baseline
\* that open stored: within 50 of 0 on all three axes it is not delivered
\* (the filter returns true), above 50 in absolute value on any axis it is
\* delivered (the filter returns false).
C40_FirstSampleAgainstZero ==
    (uOut.ret # "none" /\ uIn.last = ZeroSample) =>
        /\ WithinFilter(uIn.new, ZeroSample) => uOut.ret = "true"
        /\ ExceedsFilter(uIn.new, ZeroSample) => uOut.ret = "false"
====
